---- MODULE Spec2Model ----
(***************************************************************************)
(* Workflow board of sanity-plugin-workflow-manager: rank allocation on    *)
(* drop (handleDragEnd), drop eligibility (handleDragStart) and the quick   *)
(* transition permission check (canUserTransitionToState).                  *)
(*                                                                         *)
(* An orderRank is a string; a string is modelled as the sequence of its    *)
(* characters.  The characters '0'..'9','a'..'z' are the numbers 0..35 (the *)
(* digit they stand for in LexoRank's base-36 numeral system), ':' and '|'  *)
(* are Colon and Pipe.  The empty sequence is a missing (or empty, both     *)
(* falsy) orderRank.                                                        *)
(***************************************************************************)
EXTENDS Integers, Sequences, FiniteSets, TLC

(***************************************************************************)
(* LexoRank (package lexorank, imported by WorkflowTool): numeral system 36 *)
(***************************************************************************)
Base == 36
Colon == -2
Pipe == -1

Max2(a, b) == IF a >= b THEN a ELSE b

\* magnitudes are little-endian digit sequences, as LexoInteger.mag
DigitAt(m, i) == IF i <= Len(m) THEN m[i] ELSE 0

RECURSIVE TrimLen(_, _)
TrimLen(m, n) == IF n > 0 /\ m[n] = 0 THEN TrimLen(m, n - 1) ELSE n

\* LexoInteger.make: drop the high zero digits; nothing left is zero
IntMake(sign, m) ==
  LET n == TrimLen(m, Len(m))
  IN IF n = 0 THEN [sign |-> 0, mag |-> <<0>>]
     ELSE [sign |-> sign, mag |-> SubSeq(m, 1, n)]

IntZero == [sign |-> 0, mag |-> <<0>>]
IntOne == [sign |-> 1, mag |-> <<1>>]
IntIsZero(a) == a.sign = 0 /\ Len(a.mag) = 1 /\ a.mag[1] = 0
IntNegate(a) == IF IntIsZero(a) THEN a ELSE [sign |-> 0 - a.sign, mag |-> a.mag]

RECURSIVE MagAddFrom(_, _, _, _)
MagAddFrom(l, r, i, carry) ==
  IF i > Max2(Len(l), Len(r))
  THEN (IF carry > 0 THEN <<carry>> ELSE <<>>)
  ELSE LET s == DigitAt(l, i) + DigitAt(r, i) + carry
       IN <<s % Base>> \o MagAddFrom(l, r, i + 1, s \div Base)

MagAdd(l, r) == MagAddFrom(l, r, 1, 0)

RECURSIVE MagSubFrom(_, _, _, _)
MagSubFrom(l, r, i, borrow) ==
  IF i > Len(l) THEN <<>>
  ELSE LET s == l[i] - DigitAt(r, i) - borrow
       IN IF s < 0 THEN <<s + Base>> \o MagSubFrom(l, r, i + 1, 1)
          ELSE <<s>> \o MagSubFrom(l, r, i + 1, 0)

\* l - r for l >= r
MagSub(l, r) == MagSubFrom(l, r, 1, 0)

RECURSIVE MagCompareFrom(_, _, _)
MagCompareFrom(l, r, i) ==
  IF i = 0 THEN 0
  ELSE IF l[i] < r[i] THEN -1
  ELSE IF l[i] > r[i] THEN 1
  ELSE MagCompareFrom(l, r, i - 1)

MagCompare(l, r) ==
  IF Len(l) < Len(r) THEN -1
  ELSE IF Len(l) > Len(r) THEN 1
  ELSE MagCompareFrom(l, r, Len(l))

RECURSIVE MagMulDigitFrom(_, _, _, _)
MagMulDigitFrom(l, d, i, carry) ==
  IF i > Len(l) THEN (IF carry > 0 THEN <<carry>> ELSE <<>>)
  ELSE LET p == l[i] * d + carry
       IN <<p % Base>> \o MagMulDigitFrom(l, d, i + 1, p \div Base)

Zeros(n) == [i \in 1..n |-> 0]

RECURSIVE MagMulFrom(_, _, _)
MagMulFrom(l, r, j) ==
  IF j > Len(r) THEN <<0>>
  ELSE MagAdd(Zeros(j - 1) \o MagMulDigitFrom(l, r[j], 1, 0), MagMulFrom(l, r, j + 1))

MagMul(l, r) == MagMulFrom(l, r, 1)

IntCompare(a, b) ==
  IF a.sign = -1
  THEN (IF b.sign = -1 THEN MagCompare(b.mag, a.mag) ELSE -1)
  ELSE IF a.sign = 1
  THEN (IF b.sign = 1 THEN MagCompare(a.mag, b.mag) ELSE 1)
  ELSE (IF b.sign = -1 THEN 1 ELSE IF b.sign = 0 THEN 0 ELSE -1)

\* same-sign operands of LexoInteger.subtract
IntSubSame(a, b) ==
  LET cmp == MagCompare(a.mag, b.mag)
  IN IF cmp = 0 THEN IntZero
     ELSE IF cmp < 0
     THEN IntMake(IF a.sign = -1 THEN 1 ELSE -1, MagSub(b.mag, a.mag))
     ELSE IntMake(IF a.sign = -1 THEN -1 ELSE 1, MagSub(a.mag, b.mag))

IntAdd(a, b) ==
  IF IntIsZero(a) THEN b
  ELSE IF IntIsZero(b) THEN a
  ELSE IF a.sign # b.sign
  THEN (IF a.sign = -1
        THEN IntNegate(IntSubSame(IntNegate(a), b))
        ELSE IntSubSame(a, IntNegate(b)))
  ELSE IntMake(a.sign, MagAdd(a.mag, b.mag))

IntSubtract(a, b) ==
  IF IntIsZero(a) THEN IntNegate(b)
  ELSE IF IntIsZero(b) THEN a
  ELSE IF a.sign # b.sign
  THEN (IF a.sign = -1
        THEN IntNegate(IntMake(1, MagAdd(a.mag, b.mag)))
        ELSE IntMake(1, MagAdd(a.mag, b.mag)))
  ELSE IntSubSame(a, b)

IntMultiply(a, b) ==
  IF IntIsZero(a) THEN a
  ELSE IF IntIsZero(b) THEN b
  ELSE IntMake(IF a.sign = b.sign THEN 1 ELSE -1, MagMul(a.mag, b.mag))

IntShiftLeft(a, times) ==
  IF times = 0 THEN a ELSE IntMake(a.sign, Zeros(times) \o a.mag)

IntShiftRight(a, times) ==
  IF Len(a.mag) - times <= 0 THEN IntZero
  ELSE IntMake(a.sign, SubSeq(a.mag, times + 1, Len(a.mag)))

(***************************************************************************)
(* LexoDecimal: [mag: LexoInteger, scale: number of fractional digits]      *)
(***************************************************************************)
RECURSIVE ZeroCount(_, _, _)
ZeroCount(m, sig, i) ==
  IF i < sig /\ DigitAt(m, i + 1) = 0 THEN ZeroCount(m, sig, i + 1) ELSE i

\* LexoDecimal.make: strip the trailing zero fractional digits
DecMake(int, sig) ==
  IF IntIsZero(int) THEN [mag |-> int, scale |-> 0]
  ELSE LET zc == ZeroCount(int.mag, sig, 0)
       IN [mag |-> IntShiftRight(int, zc), scale |-> sig - zc]

DecFrom(int) == DecMake(int, 0)

\* LexoDecimal.half: 0:i
DecHalf == DecMake(IntMake(1, <<Base \div 2>>), 1)

DecAdd(a, b) ==
  LET s == Max2(a.scale, b.scale)
  IN DecMake(IntAdd(IntShiftLeft(a.mag, s - a.scale), IntShiftLeft(b.mag, s - b.scale)), s)

DecSubtract(a, b) ==
  LET s == Max2(a.scale, b.scale)
  IN DecMake(IntSubtract(IntShiftLeft(a.mag, s - a.scale), IntShiftLeft(b.mag, s - b.scale)), s)

DecMultiply(a, b) == DecMake(IntMultiply(a.mag, b.mag), a.scale + b.scale)

DecCompare(a, b) ==
  LET s == Max2(a.scale, b.scale)
  IN IntCompare(IntShiftLeft(a.mag, s - a.scale), IntShiftLeft(b.mag, s - b.scale))

DecFloor(a) == IntShiftRight(a.mag, a.scale)

RECURSIVE IsExactFrom(_, _)
IsExactFrom(a, i) ==
  IF i > a.scale THEN TRUE
  ELSE IF DigitAt(a.mag.mag, i) # 0 THEN FALSE
  ELSE IsExactFrom(a, i + 1)

DecIsExact(a) == IF a.scale = 0 THEN TRUE ELSE IsExactFrom(a, 1)

DecCeil(a) == IF DecIsExact(a) THEN a.mag ELSE IntAdd(DecFloor(a), IntOne)

\* LexoDecimal.setScale: truncate to nscale digits; with ceiling, add one
DecSetScale(a, nscale, ceiling) ==
  IF nscale >= a.scale THEN a
  ELSE LET ns == IF nscale < 0 THEN 0 ELSE nscale
           nmag == IntShiftRight(a.mag, a.scale - ns)
       IN DecMake(IF ceiling THEN IntAdd(nmag, IntOne) ELSE nmag, ns)

(***************************************************************************)
(* LexoRank's decimals                                                      *)
(***************************************************************************)
ZERO_DECIMAL == DecFrom(IntZero)
ONE_DECIMAL == DecFrom(IntOne)
EIGHT_DECIMAL == DecFrom(IntMake(1, <<8>>))
MIN_DECIMAL == ZERO_DECIMAL
MAX_DECIMAL == DecSubtract(DecFrom(IntMake(1, <<0, 0, 0, 0, 0, 0, 1>>)), ONE_DECIMAL)
INITIAL_MIN_DECIMAL == DecFrom(IntMake(1, <<0, 0, 0, 0, 0, 1>>))
INITIAL_MAX_DECIMAL == DecFrom(IntMake(1, <<0, 0, 0, 0, 0, Base - 2>>))

\* LexoRank.mid: the rounding of mid to the operands' scale
MidRounded(left, right, mid, roundDown, roundUp) ==
  IF DecCompare(roundDown, left) > 0 THEN roundDown
  ELSE IF DecCompare(roundUp, right) < 0 THEN roundUp
  ELSE mid

MidOf(left, right, mid, scale) ==
  IF mid.scale > scale
  THEN MidRounded(left, right, mid, DecSetScale(mid, scale, FALSE), DecSetScale(mid, scale, TRUE))
  ELSE mid

\* LexoRank.mid
DecMid(left, right) ==
  MidOf(left, right, DecMultiply(DecAdd(left, right), DecHalf), Max2(left.scale, right.scale))

\* LexoRank.checkMid
CheckMid(lbound, rbound, mid) ==
  IF DecCompare(lbound, mid) >= 0 \/ DecCompare(mid, rbound) >= 0
  THEN DecMid(lbound, rbound)
  ELSE mid

MiddleInternal(lbound, rbound, left, right) ==
  CheckMid(lbound, rbound, DecMid(left, right))

\* the second loop of LexoRank.between: shorten mid while it stays inside
RECURSIVE ShortenMid(_, _, _, _)
ShortenStep(oLeft, oRight, mid, mScale, nMid) ==
  IF DecCompare(oLeft, nMid) >= 0 \/ DecCompare(nMid, oRight) >= 0
  THEN mid
  ELSE ShortenMid(oLeft, oRight, nMid, mScale - 1)

ShortenMid(oLeft, oRight, mid, mScale) ==
  IF mScale > 0
  THEN ShortenStep(oLeft, oRight, mid, mScale, DecSetScale(mid, mScale - 1, FALSE))
  ELSE mid

Shortened(oLeft, oRight, mid) == ShortenMid(oLeft, oRight, mid, mid.scale)

\* the first loop of LexoRank.between: narrow left and right scale by scale;
\* the loop ends at scale 0 or where the narrowed left passes the narrowed right
RECURSIVE NarrowScale(_, _, _, _, _)
NarrowPick(oLeft, oRight, left, right, scale, nLeft1, nRight, cmp) ==
  IF cmp = 0 THEN CheckMid(oLeft, oRight, nLeft1)
  ELSE IF cmp > 0 THEN NarrowScale(oLeft, oRight, left, right, 0)
  ELSE NarrowScale(oLeft, oRight, nLeft1, nRight, scale - 1)

NarrowStep(oLeft, oRight, left, right, scale, nLeft1, nRight) ==
  NarrowPick(oLeft, oRight, left, right, scale, nLeft1, nRight, DecCompare(nLeft1, nRight))

NarrowScale(oLeft, oRight, left, right, scale) ==
  IF scale > 0
  THEN NarrowStep(oLeft, oRight, left, right, scale,
                  DecSetScale(left, scale - 1, TRUE), DecSetScale(right, scale - 1, FALSE))
  ELSE Shortened(oLeft, oRight, MiddleInternal(oLeft, oRight, left, right))

\* static LexoRank.between(oLeft, oRight) on decimals
DecBetween(oLeft, oRight) ==
  LET nLeftA == DecSetScale(oRight, oLeft.scale, FALSE)
      stopA == oLeft.scale < oRight.scale /\ DecCompare(oLeft, nLeftA) >= 0
      right == IF oLeft.scale < oRight.scale THEN nLeftA ELSE oRight
      nLeftB == DecSetScale(oLeft, right.scale, TRUE)
      stopB == oLeft.scale > right.scale /\ DecCompare(nLeftB, right) >= 0
      left == IF oLeft.scale > right.scale THEN nLeftB ELSE oLeft
  IN IF stopA \/ stopB THEN DecMid(oLeft, oRight)
     ELSE NarrowScale(oLeft, oRight, left, right, left.scale)

(***************************************************************************)
(* LexoRank: [bucket, decimal]; parse and toString                          *)
(***************************************************************************)
Reverse(s) == [i \in 1..Len(s) |-> s[Len(s) + 1 - i]]

RECURSIVE IndexFrom(_, _, _)
IndexFrom(s, c, i) ==
  IF i > Len(s) THEN 0 ELSE IF s[i] = c THEN i ELSE IndexFrom(s, c, i + 1)

\* 1-based String.indexOf; 0 when absent
IndexOf(s, c) == IndexFrom(s, c, 1)

IsDigits(s) == \A i \in 1..Len(s) : s[i] \in 0..(Base - 1)

\* LexoInteger.parse of a digit string
IntParse(s) == IntMake(1, Reverse(s))

\* LexoInteger.format
IntFormat(a) == IF IntIsZero(a) THEN <<0>> ELSE Reverse(a.mag)

\* LexoDecimal.parse; ok is FALSE where the library throws
DecParse(s) ==
  LET idx == IndexOf(s, Colon)
      rest == SubSeq(s, idx + 1, Len(s))
      intStr == SubSeq(s, 1, idx - 1) \o rest
  IN IF idx = 0
     THEN [ok |-> IsDigits(s), dec |-> IF IsDigits(s) THEN DecMake(IntParse(s), 0) ELSE ZERO_DECIMAL]
     ELSE IF IndexOf(rest, Colon) # 0 \/ ~IsDigits(intStr)
     THEN [ok |-> FALSE, dec |-> ZERO_DECIMAL]
     ELSE [ok |-> TRUE, dec |-> DecMake(IntParse(intStr), Len(rest))]

\* LexoDecimal.format for a decimal that is not negative
DecFormat(a) ==
  LET intStr == IntFormat(a.mag)
      padded == Zeros(Max2(0, a.scale + 1 - Len(intStr))) \o intStr
      cut == Len(padded) - a.scale
  IN IF a.scale = 0 THEN intStr
     ELSE SubSeq(padded, 1, cut) \o <<Colon>> \o SubSeq(padded, cut + 1, Len(padded))

RECURSIVE StripZeros(_)
StripZeros(s) ==
  IF Len(s) > 0 /\ s[Len(s)] = 0 THEN StripZeros(SubSeq(s, 1, Len(s) - 1)) ELSE s

\* LexoRank.formatDecimal: six integer digits at least, ':' always
FormatDecimal(a) ==
  LET formatVal == DecFormat(a)
      idx == IndexOf(formatVal, Colon)
      val == IF idx = 0 THEN formatVal \o <<Colon>> ELSE formatVal
      partialIndex == IF idx = 0 THEN Len(formatVal) ELSE idx - 1
  IN StripZeros(Zeros(Max2(0, 6 - partialIndex)) \o val)

\* new LexoRank(bucket, decimal)
Rank(bucket, dec) == [bucket |-> bucket, decimal |-> dec]

\* LexoRank.toString
RankToString(r) == <<r.bucket, Pipe>> \o FormatDecimal(r.decimal)

\* str.split('|'): the first two parts
SplitHead(s) ==
  LET i == IndexOf(s, Pipe) IN IF i = 0 THEN s ELSE SubSeq(s, 1, i - 1)

SplitSecond(s) ==
  LET i == IndexOf(s, Pipe)
      rest == SubSeq(s, i + 1, Len(s))
      j == IndexOf(rest, Pipe)
  IN IF j = 0 THEN rest ELSE SubSeq(rest, 1, j - 1)

\* LexoRank.parse; ok is FALSE where LexoRankBucket.from or LexoDecimal.parse throws
RankParse(s) ==
  LET head == SplitHead(s)
      bucketOk == IsDigits(head) /\ IntParse(head) \in {IntZero, IntOne, IntMake(1, <<2>>)}
      second == IF IndexOf(s, Pipe) = 0 THEN [ok |-> FALSE, dec |-> ZERO_DECIMAL]
                ELSE DecParse(SplitSecond(s))
  IN IF bucketOk /\ second.ok
     THEN [ok |-> TRUE, rank |-> Rank(IntParse(head).mag[1], second.dec)]
     ELSE [ok |-> FALSE, rank |-> Rank(0, ZERO_DECIMAL)]

RankMin == Rank(0, MIN_DECIMAL)
RankMax == Rank(0, MAX_DECIMAL)

IsMin(r) == r.decimal = MIN_DECIMAL
IsMax(r) == r.decimal = MAX_DECIMAL

\* LexoRank.genPrev
GenPrev(r) ==
  LET nextDecimal == DecSubtract(DecFrom(DecFloor(r.decimal)), EIGHT_DECIMAL)
  IN IF IsMax(r) THEN Rank(r.bucket, INITIAL_MAX_DECIMAL)
     ELSE IF DecCompare(nextDecimal, MIN_DECIMAL) <= 0
     THEN Rank(r.bucket, DecBetween(MIN_DECIMAL, r.decimal))
     ELSE Rank(r.bucket, nextDecimal)

\* LexoRank.genNext
GenNext(r) ==
  LET nextDecimal == DecAdd(DecFrom(DecCeil(r.decimal)), EIGHT_DECIMAL)
  IN IF IsMin(r) THEN Rank(r.bucket, INITIAL_MIN_DECIMAL)
     ELSE IF DecCompare(nextDecimal, MAX_DECIMAL) >= 0
     THEN Rank(r.bucket, DecBetween(r.decimal, MAX_DECIMAL))
     ELSE Rank(r.bucket, nextDecimal)

\* LexoRank.between; ok is FALSE where it throws (other bucket, same rank)
Between(r, other) ==
  LET cmp == DecCompare(r.decimal, other.decimal)
  IN IF r.bucket # other.bucket \/ cmp = 0
     THEN [ok |-> FALSE, rank |-> r]
     ELSE IF cmp > 0
     THEN [ok |-> TRUE, rank |-> Rank(r.bucket, DecBetween(other.decimal, r.decimal))]
     ELSE [ok |-> TRUE, rank |-> Rank(r.bucket, DecBetween(r.decimal, other.decimal))]

(***************************************************************************)
(* The board: configuration, current user, documents                        *)
(*                                                                         *)
(* An optional value (undefined | v) is <<>> or <<v>>.                      *)
(***************************************************************************)
VARIABLES
  states,            \* tool.options.states: sequence of State records
  user,              \* useCurrentUser(): <<>> or <<[id, roles]>>
  data,              \* workflowData.data: the local list of documents with metadata
  store,             \* the workflow.metadata records held by the document store
  undroppableStates, \* React state of WorkflowTool
  draggingFrom,      \* React state of WorkflowTool
  dragging,          \* the drag in progress: <<>> or <<draggableId>>
  patchingIds,       \* React state of WorkflowTool
  closureIds,        \* the patchingIds that the handleDragEnd in use has captured
  pendingMoves,      \* move() calls awaiting the store's answer
  processingUsers,   \* per document: UserAssignment's processingUsers
  pendingAssign,     \* add/remove assignee patches awaiting the store's answer
  lastDrop,          \* what the last handleDragEnd call computed
  topRun,            \* per state: ranks given by successive drops at index 0 since it was empty
  endRun,            \* per state: ranks given by successive drops at the end since it was empty
  drops,             \* number of drops that issued a move
  assigns,           \* number of assignee patches issued
  lastCheck,         \* the last canUserTransitionToState evaluation
  mounts,            \* per document: how often its UserAssignment has been mounted anew
  lastAssign,        \* the last addAssignee/removeAssignee call or settlement
  metadata,          \* the store's workflow.metadata records with a publishSchedule
  scheduledDocuments,\* CalendarView: data of useListeningQuery
  listening,         \* useListeningQuery: how far setupRealtimeQuery has come
  fetches,           \* useListeningQuery: refetches on their way
  notifications,     \* listener events on their way to the subscription
  contextMenu,       \* CalendarView: contextMenu.event, <<>> or <<event>>
  selectedEvent,     \* CalendarView: selectedEvent, the modal's document
  dependencies,      \* QuickEditModal: React state dependencies
  transitioning,     \* quick transitions between their fetch and their commit
  lastCommit,        \* the last quick transition that reached the store
  lastDep,           \* the last handleAddDependency/handleRemoveDependency call
  isModalOpen,       \* CalendarView: isModalOpen
  remotes,           \* number of changes made by other clients
  lastFilter,        \* the last filterItemsAndSort call: its arguments and its result
  plugin,            \* workflowManager(config): its argument and what it returned or threw
  titles,            \* per document: the title the store holds, a sequence of characters
  lastSave           \* the last handleSave call of QuickEditModal and what it left

\* UserAssignment instances and the record of their calls
assignment == <<mounts, lastAssign>>

\* the publishing calendar and its modal
calendar == <<metadata, scheduledDocuments, listening, fetches, notifications,
              contextMenu, selectedEvent, dependencies, transitioning, lastCommit,
              lastDep, isModalOpen, remotes>>

\* the workflow board
board == <<data, store, undroppableStates, draggingFrom, dragging, patchingIds, closureIds,
           pendingMoves, processingUsers, pendingAssign, lastDrop, topRun, endRun,
           drops, assigns, lastCheck>>

\* the column filter and the plugin's construction
others == <<lastFilter, plugin, titles, lastSave>>

vars == <<states, user, board, assignment, calendar, others>>

MaxDrops == 2
MaxAssigns == 2
MaxMounts == 1
MaxRemotes == 2
MaxInFlight == 1
MaxItems == 2

StateIds == <<"draft", "review", "approved">>
StateIdSet == {StateIds[i] : i \in 1..Len(StateIds)}
Docs == <<"d1", "d2", "d3">>
DocSet == {Docs[i] : i \in 1..Len(Docs)}
Users == {"u1", "u2"}
Roles == {"editor", "administrator"}

Undefined == <<>>
Some(v) == <<v>>
IsDefined(o) == Len(o) > 0
Get(o) == o[1]

Includes(seq, x) == \E i \in 1..Len(seq) : seq[i] = x

\* states.findIndex((s) => s.id === id), 0-based, -1 when absent
RECURSIVE FindIndexFrom(_, _, _)
FindIndexFrom(sts, id, i) ==
  IF i > Len(sts) THEN -1
  ELSE IF sts[i].id = id THEN i - 1
  ELSE FindIndexFrom(sts, id, i + 1)

FindStateIndex(sts, id) == FindIndexFrom(sts, id, 1)

\* data.find((item) => item._metadata?.documentId === id): 1-based position, 0 when absent
RECURSIVE FindDocFrom(_, _, _)
FindDocFrom(items, id, i) ==
  IF i > Len(items) THEN 0
  ELSE IF items[i].documentId = id THEN i
  ELSE FindDocFrom(items, id, i + 1)

FindDoc(items, id) == FindDocFrom(items, id, 1)

(***************************************************************************)
(* filterItemsAndSort                                                       *)
(***************************************************************************)
\* a.localeCompare(b) on the characters ranks are made of: -1, 0 or 1
RECURSIVE LocaleCompareFrom(_, _, _)
LocaleCompareFrom(a, b, i) ==
  IF i > Len(a) /\ i > Len(b) THEN 0
  ELSE IF i > Len(a) THEN -1
  ELSE IF i > Len(b) THEN 1
  ELSE IF a[i] < b[i] THEN -1
  ELSE IF a[i] > b[i] THEN 1
  ELSE LocaleCompareFrom(a, b, i + 1)

LocaleCompare(a, b) == LocaleCompareFrom(a, b, 1)

\* orderRank || '0'
OrZero(rank) == IF rank = <<>> THEN <<0>> ELSE rank

\* the comparator of filterItemsAndSort
CompareItems(a, b) == LocaleCompare(OrZero(a.orderRank), OrZero(b.orderRank))

\* Array.prototype.sort is stable: x goes after every element not greater than it
RECURSIVE InsertSorted(_, _)
InsertSorted(sorted, x) ==
  IF sorted = <<>> THEN <<x>>
  ELSE IF CompareItems(Head(sorted), x) <= 0
  THEN <<Head(sorted)>> \o InsertSorted(Tail(sorted), x)
  ELSE <<x>> \o sorted

RECURSIVE SortFrom(_, _, _)
SortFrom(items, i, acc) ==
  IF i > Len(items) THEN acc
  ELSE SortFrom(items, i + 1, InsertSorted(acc, items[i]))

\* items.sort((a, b) => aOrderRank.localeCompare(bOrderRank))
SortByRank(items) == SortFrom(items, 1, <<>>)

\* item._metadata?.assignees?.length > 0: false for a missing list
HasAssignees(item) ==
  IF "assignees" \in DOMAIN item THEN Len(item.assignees) > 0 ELSE FALSE

\* a variant that lets unassigned documents through a user filter
UserFilterShowsUnassigned(item, selectedUsers) ==
  \/ Len(selectedUsers) = 0
  \/ ~HasAssignees(item)
  \/ \E i \in 1..Len(item.assignees) : Includes(selectedUsers, item.assignees[i])

\* the third filter: only items with selected users
UserFilter(item, selectedUsers) ==
  IF Len(selectedUsers) = 0 THEN TRUE
  ELSE IF HasAssignees(item)
  THEN \E i \in 1..Len(item.assignees) : Includes(selectedUsers, item.assignees[i])
  ELSE FALSE

\* a variant that treats an empty selection like no selection
TypeFilterEmptyShowsAll(item, selectedSchemaTypes) ==
  IF ~IsDefined(selectedSchemaTypes) \/ Len(Get(selectedSchemaTypes)) = 0 THEN TRUE
  ELSE Includes(Get(selectedSchemaTypes), item.type)

\* the fourth filter: only items of selected schema types
TypeFilter(item, selectedSchemaTypes) ==
  IF ~IsDefined(selectedSchemaTypes) THEN TRUE
  ELSE IF Len(Get(selectedSchemaTypes)) # 0
  THEN Includes(Get(selectedSchemaTypes), item.type)
  ELSE FALSE

FilterItemsAndSort(items, stateId, selectedUsers, selectedSchemaTypes) ==
  LET Keep(item) ==
        /\ item.hasId
        /\ item.state = stateId
        /\ UserFilter(item, selectedUsers)
        /\ TypeFilter(item, selectedSchemaTypes)
  IN IF Len(items) = 0 THEN <<>>
     ELSE SortByRank(SelectSeq(items, Keep))

(***************************************************************************)
(* handleDragEnd: the new orderRank of a dropped document                   *)
(***************************************************************************)
Allocated(rank, branch) == [raised |-> FALSE, rank |-> RankToString(rank), branch |-> branch]
Thrown(branch) == [raised |-> TRUE, rank |-> <<>>, branch |-> branch]

\* what a.between(b).toString() leaves in newOrder, unless between threw
Returned(result, branch) ==
  IF result.ok THEN Allocated(result.rank, branch) ELSE Thrown(branch)

\* a variant that gives every empty state the absolute minimum
NewOrderEmptyAlwaysMin(destinationStateIndex) == Allocated(RankMin, "empty")

\* the destination state holds no items
NewOrderEmpty(destinationStateIndex) ==
  IF destinationStateIndex = 0
  THEN Allocated(RankMin, "empty")
  ELSE Allocated(GenNext(RankMin), "empty")

\* LexoRank.parse(firstItemOrderRank).genPrev()
BeforeFirst(first) ==
  IF first.ok THEN Allocated(GenPrev(first.rank), "first") ELSE Thrown("first")

\* the first item has no rank and the state is not the first configured one
AfterGlobalMinimum(globalMinRank) ==
  IF ~globalMinRank.ok THEN Thrown("first")
  ELSE IF RankToString(RankMin) = RankToString(globalMinRank.rank)
  THEN Allocated(GenNext(RankMin), "first")
  ELSE Returned(Between(globalMinRank.rank, RankMin), "first")

\* destination.index === 0
NewOrderFirst(items, destinationStateIndex, globalStateMinimumRank) ==
  IF items[1].orderRank # <<>> THEN BeforeFirst(RankParse(items[1].orderRank))
  ELSE IF destinationStateIndex = 0 THEN Allocated(RankMin, "first")
  ELSE AfterGlobalMinimum(RankParse(globalStateMinimumRank))

\* LexoRank.parse(lastItemOrderRank).genNext()
AfterLast(last) ==
  IF last.ok THEN Allocated(GenNext(last.rank), "last") ELSE Thrown("last")

\* the last item has no rank and the state is not the last configured one
BeforeGlobalMaximum(globalMaxRank) ==
  IF ~globalMaxRank.ok THEN Thrown("last")
  ELSE IF RankToString(RankMax) = RankToString(globalMaxRank.rank)
  THEN Allocated(GenPrev(RankMax), "last")
  ELSE Returned(Between(globalMaxRank.rank, RankMax), "last")

\* destination.index + 1 === destinationStateItems.length
NewOrderLast(items, destinationStateIndex, nStates, globalStateMaximumRank) ==
  IF items[Len(items)].orderRank # <<>>
  THEN AfterLast(RankParse(items[Len(items)].orderRank))
  ELSE IF destinationStateIndex = nStates - 1 THEN Allocated(RankMax, "last")
  ELSE BeforeGlobalMaximum(RankParse(globalStateMaximumRank))

\* destinationStateItems[i]?._metadata?.orderRank, i counted from 0
OrderRankAt(items, i) ==
  IF i >= 0 /\ i < Len(items) THEN items[i + 1].orderRank ELSE <<>>

ItemBeforeRankParsed(itemBeforeRank, destinationStateIndex, globalStateMinimumRank) ==
  IF itemBeforeRank # <<>> THEN RankParse(itemBeforeRank)
  ELSE IF destinationStateIndex = 0 THEN [ok |-> TRUE, rank |-> RankMin]
  ELSE RankParse(globalStateMinimumRank)

ItemAfterRankParsed(itemAfterRank, destinationStateIndex, nStates, globalStateMaximumRank) ==
  IF itemAfterRank # <<>> THEN RankParse(itemAfterRank)
  ELSE IF destinationStateIndex = nStates - 1 THEN [ok |-> TRUE, rank |-> RankMax]
  ELSE RankParse(globalStateMaximumRank)

\* lines 242-248: the rank between the two parsed ranks, or after equal ones
BetweenParsed(itemBeforeRankParsed, itemAfterRankParsed) ==
  IF ~itemBeforeRankParsed.ok \/ ~itemAfterRankParsed.ok THEN Thrown("between")
  ELSE IF RankToString(itemBeforeRankParsed.rank) = RankToString(itemAfterRankParsed.rank)
  THEN Allocated(GenNext(itemBeforeRankParsed.rank), "between")
  ELSE Returned(Between(itemBeforeRankParsed.rank, itemAfterRankParsed.rank), "between")

\* a variant that reads the item before on both sides
NewOrderBetweenStepping(items, index, destinationStateIndex, nStates, globalStateMinimumRank, globalStateMaximumRank) ==
  BetweenParsed(
    ItemBeforeRankParsed(OrderRankAt(items, index - 1), destinationStateIndex,
                         globalStateMinimumRank),
    ItemBeforeRankParsed(OrderRankAt(items, index - 1), destinationStateIndex,
                         globalStateMinimumRank))

\* between destinationStateItems[index - 1] and destinationStateItems[index]
NewOrderBetween(items, index, destinationStateIndex, nStates, globalStateMinimumRank, globalStateMaximumRank) ==
  BetweenParsed(
    ItemBeforeRankParsed(OrderRankAt(items, index - 1), destinationStateIndex,
                         globalStateMinimumRank),
    ItemAfterRankParsed(OrderRankAt(items, index), destinationStateIndex, nStates,
                        globalStateMaximumRank))

\* lines 160-249 of handleDragEnd: newOrder for a drop into destinationId at index
NewOrderIn(destinationStateItems, destinationStateIndex, nStates, index, globalStateMinimumRank, globalStateMaximumRank) ==
  IF Len(destinationStateItems) = 0
  THEN NewOrderEmpty(destinationStateIndex)
  ELSE IF index = 0
  THEN NewOrderFirst(destinationStateItems, destinationStateIndex, globalStateMinimumRank)
  ELSE IF index + 1 = Len(destinationStateItems)
  THEN NewOrderLast(destinationStateItems, destinationStateIndex, nStates,
                    globalStateMaximumRank)
  ELSE NewOrderBetween(destinationStateItems, index, destinationStateIndex, nStates,
                       globalStateMinimumRank, globalStateMaximumRank)

NewOrder(destinationStateItems, items, sts, destinationId, index) ==
  NewOrderIn(destinationStateItems, FindStateIndex(sts, destinationId), Len(sts), index,
             OrZero(items[1].orderRank), OrZero(items[Len(items)].orderRank))

(***************************************************************************)
(* handleDragStart: the states the dragged document may not be dropped on   *)
(***************************************************************************)
\* .map((s) => s.id)
IdsOf(sts) == [i \in 1..Len(sts) |-> sts[i].id]

\* a variant that excludes the states that require assignment for every user
AssignmentUndroppableForAll(sts, usr, document) ==
  LET Requires(st) == st.requireAssignment
  IN IdsOf(SelectSeq(sts, Requires))

\* states that require assignment, when the user is not assigned to the document
AssignmentUndroppable(sts, usr, document) ==
  LET Requires(st) == st.requireAssignment
      statesThatRequireAssignmentIds == IdsOf(SelectSeq(sts, Requires))
      userIsAssignedToDocument ==
        IF IsDefined(usr) THEN Includes(document.assignees, Get(usr).id) ELSE FALSE
  IN IF Len(statesThatRequireAssignmentIds) > 0 /\ ~userIsAssignedToDocument
     THEN statesThatRequireAssignmentIds
     ELSE <<>>

\* a variant that reads no transitions list
TransitionUndroppableNever(sts, state) == <<>>

\* states the source state's transitions list does not name
TransitionUndroppable(sts, state) ==
  LET NotListed(st) == st.id \notin Get(state.transitions)
  IN IF IsDefined(state.transitions) /\ Cardinality(Get(state.transitions)) > 0
     THEN IdsOf(SelectSeq(sts, NotListed))
     ELSE <<>>

\* a variant that leaves the current state in the list
UndroppableWithSelf(sts, usr, document, state, currentStateId) ==
  AssignmentUndroppable(sts, usr, document) \o TransitionUndroppable(sts, state)

\* undroppableExceptSelf
UndroppableExceptSelf(sts, usr, document, state, currentStateId) ==
  LET undroppableStateIds ==
        AssignmentUndroppable(sts, usr, document) \o TransitionUndroppable(sts, state)
      NotSelf(id) == id # currentStateId
  IN SelectSeq(undroppableStateIds, NotSelf)

\* arraysContainMatchingString(a, b)
ArraysContainMatchingString(a, b) == a \cap b # {}

\* userRoleNames
UserRoleNames(usr) == IF IsDefined(usr) THEN Get(usr).roles ELSE {}

\* a variant without the role check
UserRoleCanDropAlways(st, usr) == TRUE

\* userRoleCanDrop of a state's column
UserRoleCanDrop(st, usr) ==
  IF IsDefined(st.roles) /\ Cardinality(Get(st.roles)) > 0
  THEN ArraysContainMatchingString(Get(st.roles), UserRoleNames(usr))
  ELSE TRUE

\* isDropDisabled of a state's column
IsDropDisabled(st, usr, undroppable) ==
  ~UserRoleCanDrop(st, usr) \/ Includes(undroppable, st.id)

(***************************************************************************)
(* canUserTransitionToState of CalendarView and QuickEditModal              *)
(***************************************************************************)
\* currentUser and targetState are optional values, assignees a list of user ids
CanUserTransitionToState(currentUser, targetState, assignees) ==
  IF ~IsDefined(currentUser) \/ ~IsDefined(targetState) THEN FALSE
  ELSE LET userRoles == Get(currentUser).roles
           targetRoles == Get(targetState).roles
           targetRolesLength ==
             IF IsDefined(targetRoles) THEN Some(Cardinality(Get(targetRoles))) ELSE Undefined
           userRoleCanUpdateState ==
             IF Cardinality(userRoles) # 0 /\ IsDefined(targetRolesLength)
                /\ Get(targetRolesLength) # 0
             THEN \E userRole \in userRoles : userRole \in Get(targetRoles)
             ELSE targetRolesLength # Some(0)
           userAssignmentCanUpdateState ==
             IF Get(targetState).requireAssignment
             THEN Len(assignees) # 0 /\ Includes(assignees, Get(currentUser).id)
             ELSE TRUE
       IN userRoleCanUpdateState /\ userAssignmentCanUpdateState

(***************************************************************************)
(* useWorkflowDocuments: the local copy of the query result, move and       *)
(* updateAssignees with their optimistic updates                            *)
(***************************************************************************)
\* the live query *[_type == "workflow.metadata"]|order(orderRank)
Refetch(records) == SortByRank(records)

\* move(): the optimistic update of the local data
MoveOptimistic(items, id, destinationId, newOrder) ==
  [i \in 1..Len(items) |->
     IF items[i].documentId = id
     THEN [items[i] EXCEPT !.state = destinationId, !.orderRank = newOrder]
     ELSE items[i]]

\* updateAssignees(documentId, newAssignees)
UpdateAssignees(items, id, newAssignees) ==
  [i \in 1..Len(items) |->
     IF items[i].documentId = id
     THEN [items[i] EXCEPT !.assignees = newAssignees]
     ELSE items[i]]

ItemOf(items, id) == items[FindDoc(items, id)]

\* 0-based position of a document in a list, -1 when absent
PositionIn(items, id) == FindDoc(items, id) - 1

Column(items, stateId) == FilterItemsAndSort(items, stateId, <<>>, Undefined)

RanksOf(items) == [i \in 1..Len(items) |-> items[i].orderRank]

(***************************************************************************)
(* Initial states                                                           *)
(***************************************************************************)
StateRecord(id, roles, transitions, requireAssignment) ==
  [id |-> id, roles |-> roles, transitions |-> transitions,
   requireAssignment |-> requireAssignment]

\* a review flow: draft goes to review, review goes on to approved or back to
\* draft, and review and approved are for the document's assignees
ReviewFlow ==
  << StateRecord("draft", Undefined, Some({"review"}), FALSE),
     StateRecord("review", Undefined, Some({"approved", "draft"}), TRUE),
     StateRecord("approved", Undefined, Undefined, TRUE) >>

RECURSIVE GenNextTimes(_, _)
GenNextTimes(r, n) == IF n = 0 THEN r ELSE GenNextTimes(GenNext(r), n - 1)

\* the i-th document's rank: 0|100000:, 0|100008:, 0|10000g:, ...
InitialRank(i) == RankToString(GenNextTimes(RankMin, i))

\* a workflow.metadata record as the query returns it
Item(documentId, state, assignees, orderRank) ==
  [documentId |-> documentId, hasId |-> TRUE, type |-> "post",
   state |-> state, assignees |-> assignees, orderRank |-> orderRank]

\* every document in one state, with the given ranks
BoardOf(stateId, ranks) ==
  [i \in 1..Len(Docs) |-> Item(Docs[i], stateId, <<>>, ranks[i])]

(***************************************************************************)
(* The publishing calendar: records, query, events                          *)
(***************************************************************************)
\* DEFAULT_CONFIG.states, as the README gives the default states
DefaultStates ==
  << StateRecord("inReview", Some({"editor", "administrator"}),
                 Some({"changesRequested", "approved"}), FALSE),
     StateRecord("changesRequested", Some({"editor", "administrator"}),
                 Some({"approved"}), FALSE),
     StateRecord("approved", Some({"administrator"}),
                 Some({"changesRequested"}), TRUE) >>

DefaultStateIds == {DefaultStates[i].id : i \in 1..Len(DefaultStates)}

\* DEFAULT_CONFIG.states.find(state => state.id === id)
FindState(sts, k) == IF k >= 0 THEN Some(sts[k + 1]) ELSE Undefined

DefaultState(id) == FindState(DefaultStates, FindStateIndex(DefaultStates, id))

\* a workflow.metadata record that has a publishSchedule
Metadata(documentId, state, assignees, scheduledDate, deps) ==
  [documentId |-> documentId, state |-> state, assignees |-> assignees,
   orderRank |-> InitialRank(1),
   publishSchedule |-> [scheduledDate |-> scheduledDate, publishStatus |-> "scheduled",
                        dependencies |-> deps]]

\* | order(publishSchedule.scheduledDate)
RECURSIVE InsertByDate(_, _)
InsertByDate(sorted, record) ==
  IF sorted = <<>> THEN <<record>>
  ELSE IF record.publishSchedule.scheduledDate
            < Head(sorted).publishSchedule.scheduledDate
  THEN <<record>> \o sorted
  ELSE <<Head(sorted)>> \o InsertByDate(Tail(sorted), record)

RECURSIVE QueryFrom(_, _)
QueryFrom(records, i) ==
  IF i > Len(Docs) THEN <<>>
  ELSE IF IsDefined(records[Docs[i]])
  THEN InsertByDate(QueryFrom(records, i + 1), Get(records[Docs[i]]))
  ELSE QueryFrom(records, i + 1)

\* the calendar's query over the store
ScheduledQuery(records) == QueryFrom(records, 1)

\* a document of the query result as a CalendarEvent
EventOf(doc) ==
  [documentId |-> doc.documentId, date |-> doc.publishSchedule.scheduledDate,
   status |-> doc.publishSchedule.publishStatus, assignees |-> doc.assignees,
   workflowState |-> doc.state, dependencies |-> doc.publishSchedule.dependencies]

\* events, with no workflow state selected in the filter
Events(documents) == [i \in 1..Len(documents) |-> EventOf(documents[i])]

\* the targets named by the current state's transitions
TransitionsOf(currentState) ==
  IF IsDefined(currentState) /\ IsDefined(Get(currentState).transitions)
  THEN Get(Get(currentState).transitions) \cap DefaultStateIds
  ELSE {}

GetAvailableTransitionsForEvent(workflowState) == TransitionsOf(DefaultState(workflowState))

GetAvailableTransitionsForEventWithPermissions(currentUser, event) ==
  {t \in GetAvailableTransitionsForEvent(event.workflowState) :
     CanUserTransitionToState(currentUser, DefaultState(t), event.assignees)}

\* no effect of useListeningQuery has run
Idle == [phase |-> "idle", initialResult |-> <<>>, isMounted |-> FALSE]

NoCommit == [kind |-> "", doc |-> "", to |-> "", before |-> <<>>, after |-> <<>>]

NoDep ==
  [op |-> "", document |-> "", id |-> "", before |-> <<>>, after |-> <<>>,
   previous |-> [op |-> "", document |-> "", id |-> "", before |-> <<>>]]

\* the calendar tool is not open
CalendarClosed ==
  /\ metadata = [d \in DocSet |-> Undefined]
  /\ scheduledDocuments = <<>>
  /\ listening = Idle
  /\ fetches = <<>>
  /\ notifications = <<>>
  /\ contextMenu = <<>>
  /\ selectedEvent = <<>>
  /\ dependencies = <<>>
  /\ transitioning = {}
  /\ lastCommit = NoCommit
  /\ lastDep = NoDep
  /\ isModalOpen = FALSE
  /\ remotes = 0

NoDrop ==
  [kind |-> "init", doc |-> "", source |-> "", sourceIndex |-> 0, dest |-> "",
   index |-> 0, destRanks |-> <<>>, newOrder |-> <<>>, branch |-> "", position |-> 0]

NoCheck == [doc |-> "", target |-> "", result |-> FALSE]

NoAssign == [op |-> "", doc |-> "", user |-> "", outcome |-> "", before |-> <<>>]

\* no card has had its popover reopened, no assignee call has been made
NoFilter ==
  [called |-> FALSE, items |-> <<>>, stateId |-> "", selectedUsers |-> <<>>,
   selectedSchemaTypes |-> <<>>, result |-> <<>>]

\* a WorkflowConfig object: which keys it has and their values
Config(hasStates, statesValue, hasSchemaTypes, schemaTypesValue) ==
  [hasStates |-> hasStates, states |-> statesValue,
   hasSchemaTypes |-> hasSchemaTypes, schemaTypes |-> schemaTypesValue]

\* DEFAULT_CONFIG with the given schemaTypes
DefaultConfig(schemaTypes) == Config(TRUE, Some(DefaultStates), TRUE, Some(schemaTypes))

\* {...DEFAULT_CONFIG, ...config}: a key of config wins, whatever its value
Spread(defaults, config) ==
  Config(defaults.hasStates \/ config.hasStates,
         IF config.hasStates THEN config.states ELSE defaults.states,
         defaults.hasSchemaTypes \/ config.hasSchemaTypes,
         IF config.hasSchemaTypes THEN config.schemaTypes ELSE defaults.schemaTypes)

\* !list?.length
NoLength(list) == IF IsDefined(list) THEN Len(Get(list)) = 0 ELSE TRUE

\* workflowManager has not been called
Unbuilt(defaults, config) ==
  [phase |-> "config", defaults |-> defaults, config |-> config,
   error |-> "", states |-> <<>>, schemaTypes |-> <<>>]

\* a variant that checks the states only
DefinePluginStatesOnly(call, merged) ==
  IF NoLength(merged.states)
  THEN [call EXCEPT !.phase = "error", !.error = "Workflow plugin: Missing \"states\" in config"]
  ELSE [call EXCEPT !.phase = "defined", !.states = Get(merged.states),
                    !.schemaTypes = IF IsDefined(merged.schemaTypes)
                                    THEN Get(merged.schemaTypes) ELSE <<>>]

\* the two checks and the plugin definition with its two tools
DefinePlugin(call, merged) ==
  IF NoLength(merged.states)
  THEN [call EXCEPT !.phase = "error", !.error = "Workflow plugin: Missing \"states\" in config"]
  ELSE IF NoLength(merged.schemaTypes)
  THEN [call EXCEPT !.phase = "error",
                    !.error = "Workflow plugin: Missing \"schemaTypes\" in config"]
  ELSE [call EXCEPT !.phase = "defined", !.states = Get(merged.states),
                    !.schemaTypes = Get(merged.schemaTypes)]

\* (config = DEFAULT_CONFIG) => ...
WorkflowManagerOf(call) ==
  DefinePlugin(call, Spread(call.defaults,
                            IF IsDefined(call.config) THEN Get(call.config)
                            ELSE call.defaults))

NoSave ==
  [outcome |-> "", document |-> "", title |-> <<>>, before |-> <<>>, after |-> <<>>,
   titleBefore |-> <<>>, titleAfter |-> <<>>, onSave |-> FALSE, open |-> FALSE]

\* every document is titled "a"; no save has been asked for
InitSave ==
  /\ titles = [d \in DocSet |-> <<"a">>]
  /\ lastSave = NoSave

\* the studio builds the plugin; its tools are given the states
WorkflowManager ==
  /\ plugin.phase = "config"
  /\ plugin' = WorkflowManagerOf(plugin)
  /\ states' = IF plugin'.phase = "defined" THEN plugin'.states ELSE states
  /\ UNCHANGED <<user, board, assignment, calendar, lastFilter, titles, lastSave>>

\* workflowManager not yet called, and to be called without a configuration
NoPlugin == Unbuilt(DefaultConfig(<<>>), Undefined)

InitOthers ==
  /\ lastFilter = NoFilter
  /\ plugin = NoPlugin
  /\ InitSave

InitAssignment ==
  /\ mounts = [d \in DocSet |-> 0]
  /\ lastAssign = NoAssign

InitBoard ==
  /\ data = Refetch(store)
  /\ undroppableStates = <<>>
  /\ draggingFrom = ""
  /\ dragging = <<>>
  /\ patchingIds = <<>>
  /\ closureIds = <<>>
  /\ pendingMoves = {}
  /\ processingUsers = [d \in DocSet |-> {}]
  /\ pendingAssign = {}
  /\ lastDrop = NoDrop
  /\ topRun = [s \in StateIdSet |-> <<>>]
  /\ endRun = [s \in StateIdSet |-> <<>>]
  /\ drops = 0
  /\ assigns = 0
  /\ lastCheck = NoCheck

InitRest ==
  /\ InitBoard
  /\ InitAssignment
  /\ InitOthers
  /\ CalendarClosed

\* the review flow with every document waiting in review, nobody assigned
Init ==
  /\ states = ReviewFlow
  /\ user = Some([id |-> "u1", roles |-> {"editor"}])
  /\ store = BoardOf("review", [i \in 1..Len(Docs) |-> InitialRank(i)])
  /\ InitRest

(***************************************************************************)
(* Board actions                                                            *)
(***************************************************************************)
\* onDragStart of a card of the board
HandleDragStart(draggableId) ==
  LET pos == FindDoc(data, draggableId)
      document == data[pos]
      currentStateId == document.state
      stateIndex == FindStateIndex(states, currentStateId)
      state == states[stateIndex + 1]
  IN /\ dragging = <<>>
     /\ pos > 0
     /\ document.hasId
     /\ stateIndex >= 0
     /\ ~Includes(patchingIds, draggableId)
     /\ draggingFrom' = currentStateId
     /\ undroppableStates' =
          UndroppableExceptSelf(states, user, document, state, currentStateId)
     /\ dragging' = Some([id |-> draggableId, source |-> currentStateId,
                          index |-> PositionIn(Column(data, currentStateId), draggableId)])
     /\ UNCHANGED <<states, user, data, store, patchingIds, closureIds, pendingMoves, processingUsers,
                    pendingAssign, lastDrop, topRun, endRun, drops, assigns, lastCheck>>
     /\ UNCHANGED <<assignment, calendar, others>>

\* the cards a column shows other than the dragged one
OtherCards(stateId, draggableId) ==
  LET Shown(item) == item.hasId /\ item.state = stateId /\ item.documentId # draggableId
  IN SelectSeq(data, Shown)

\* where the drag-and-drop library lets the card be dropped
DropTargets(draggableId) ==
  UNION {{[droppableId |-> states[k].id, index |-> i] :
            i \in 0..Len(OtherCards(states[k].id, draggableId))} :
         k \in {j \in 1..Len(states) : ~IsDropDisabled(states[j], user, undroppableStates)}}

RunAfterDrop(run, stateId, sourceId, destinationId, wasEmpty, extends, rank) ==
  IF stateId = destinationId
  THEN (IF wasEmpty THEN <<rank>>
        ELSE IF extends /\ sourceId # destinationId /\ run # <<>> THEN Append(run, rank)
        ELSE <<>>)
  ELSE IF stateId = sourceId THEN <<>>
  ELSE run

\* line 257: setPatchingIds((ids) => ids.filter((id) => id !== draggableId))
UnmarkPatching(ids, draggableId) ==
  LET Other(id) == id # draggableId IN SelectSeq(ids, Other)

\* line 251: setPatchingIds([...patchingIds, draggableId]), where patchingIds is
\* the value the callback captured at the render that created it
MarkPatching(captured, draggableId) == Append(captured, draggableId)

\* lines 251-256: the card is marked as patching and move() is called; its
\* optimistic update shows at once
IssueMove(draggableId, source, dest, destinationStateItems, itemState, branch, newOrder, moved) ==
  /\ drops < MaxDrops
  /\ drops' = drops + 1
  /\ patchingIds' = MarkPatching(closureIds, draggableId)
  /\ closureIds' = patchingIds'
  /\ data' = moved
  /\ pendingMoves' = pendingMoves \cup
       {[doc |-> draggableId, state |-> dest.droppableId, orderRank |-> newOrder,
         snapshot |-> data]}
  /\ lastDrop' =
       [kind |-> "moved", doc |-> draggableId, source |-> source.droppableId,
        sourceIndex |-> source.index, dest |-> dest.droppableId, index |-> dest.index,
        destRanks |-> RanksOf(destinationStateItems), newOrder |-> newOrder,
        branch |-> branch,
        position |-> PositionIn(Column(moved, dest.droppableId), draggableId)]
  /\ topRun' = [s \in StateIdSet |->
       RunAfterDrop(topRun[s], s, itemState, dest.droppableId,
                    Len(destinationStateItems) = 0, dest.index = 0, newOrder)]
  /\ endRun' = [s \in StateIdSet |->
       RunAfterDrop(endRun[s], s, itemState, dest.droppableId,
                    Len(destinationStateItems) = 0,
                    dest.index = Len(destinationStateItems), newOrder)]

\* LexoRank threw: the handler's promise rejects before line 251
Rejected(draggableId, source, dest, destinationStateItems, branch) ==
  /\ lastDrop' =
       [kind |-> "raised", doc |-> draggableId, source |-> source.droppableId,
        sourceIndex |-> source.index, dest |-> dest.droppableId, index |-> dest.index,
        destRanks |-> RanksOf(destinationStateItems), newOrder |-> <<>>,
        branch |-> branch, position |-> 0]
  /\ UNCHANGED <<data, patchingIds, closureIds, pendingMoves, topRun, endRun, drops>>

\* lines 166-256 once newOrder has been computed
Reorder(draggableId, source, dest, destinationStateItems, new) ==
  IF new.raised
  THEN Rejected(draggableId, source, dest, destinationStateItems, new.branch)
  ELSE IssueMove(draggableId, source, dest, destinationStateItems,
                 ItemOf(data, draggableId).state, new.branch, new.rank,
                 MoveOptimistic(data, draggableId, dest.droppableId, new.rank))

\* lines 156-256
DropOn(draggableId, source, dest, destinationStateItems) ==
  Reorder(draggableId, source, dest, destinationStateItems,
          NewOrder(destinationStateItems, data, states, dest.droppableId, dest.index))

\* onDragEnd: destination is Undefined or Some([droppableId, index])
HandleDragEndOf(draggableId, source, destination) ==
  IF \/ ~IsDefined(destination)
     \/ /\ Get(destination).droppableId = source.droppableId
        /\ Get(destination).index = source.index
  THEN UNCHANGED <<data, patchingIds, closureIds, pendingMoves, lastDrop, topRun, endRun, drops>>
  ELSE IF Len(data) = 0
  THEN UNCHANGED <<data, patchingIds, closureIds, pendingMoves, lastDrop, topRun, endRun, drops>>
  ELSE DropOn(draggableId, source, Get(destination),
              FilterItemsAndSort(data, Get(destination).droppableId, <<>>, Undefined))

HandleDragEnd(destination) ==
  /\ dragging # <<>>
  /\ undroppableStates' = <<>>
  /\ draggingFrom' = ""
  /\ dragging' = <<>>
  /\ UNCHANGED <<states, user, store, processingUsers, pendingAssign, assigns, lastCheck>>
  /\ UNCHANGED <<assignment, calendar, others>>
  /\ HandleDragEndOf(Get(dragging).id,
                     [droppableId |-> Get(dragging).source, index |-> Get(dragging).index],
                     destination)

\* a drop on one of the columns the library offers, or outside every column
Drop ==
  /\ dragging # <<>>
  /\ \E destination \in
          {Undefined} \cup {Some(t) : t \in DropTargets(Get(dragging).id)} :
       HandleDragEnd(destination)

\* the store answers a move(): the patch is committed and the query refetched,
\* or the patch fails and the local data is put back
\* rendered: whether the component has rendered again, with a new handleDragEnd,
\* before the next event is handled
MoveSettleWith(p, ok, rendered) ==
  /\ p \in pendingMoves
  /\ pendingMoves' = pendingMoves \ {p}
  /\ patchingIds' = UnmarkPatching(patchingIds, p.doc)
  /\ closureIds' = IF rendered THEN patchingIds' ELSE closureIds
  /\ IF ok
     THEN /\ store' = MoveOptimistic(store, p.doc, p.state, p.orderRank)
          /\ data' = Refetch(store')
          /\ UNCHANGED <<topRun, endRun>>
     ELSE /\ data' = p.snapshot
          /\ topRun' = [s \in StateIdSet |-> <<>>]
          /\ endRun' = [s \in StateIdSet |-> <<>>]
          /\ UNCHANGED store
  /\ UNCHANGED <<states, user, undroppableStates, draggingFrom, dragging, processingUsers,
                 pendingAssign, lastDrop, drops, assigns, lastCheck>>
  /\ UNCHANGED <<assignment, calendar, others>>

MoveSettle(p, ok) == MoveSettleWith(p, ok, TRUE)

\* the render the settlement's state update asked for: the new handleDragEnd
\* captures the current patchingIds (dependency list, line 259)
Render ==
  /\ closureIds # patchingIds
  /\ closureIds' = patchingIds
  /\ UNCHANGED <<states, user, data, store, undroppableStates, draggingFrom, dragging,
                 patchingIds, pendingMoves, processingUsers, pendingAssign, lastDrop,
                 topRun, endRun, drops, assigns, lastCheck>>
  /\ UNCHANGED <<assignment, calendar, others>>

(***************************************************************************)
(* UserAssignment: addAssignee, removeAssignee                              *)
(***************************************************************************)
\* a variant that does not look at the current assignees
AddAssigneeOutcomeUnchecked(processing, userList, safeAssignees, userId) ==
  IF userId \in processing THEN "ignored"
  ELSE IF userId \notin userList THEN "unknown"
  ELSE "accepted"

\* lines 29-50 of addAssignee: the early returns
AddAssigneeOutcome(processing, userList, safeAssignees, userId) ==
  IF userId \in processing THEN "ignored"
  ELSE IF userId \notin userList THEN "unknown"
  ELSE IF Includes(safeAssignees, userId) THEN "duplicate"
  ELSE "accepted"

\* lines 97-118 of removeAssignee: the early returns
RemoveAssigneeOutcome(processing, userList, safeAssignees, userId) ==
  IF userId \in processing THEN "ignored"
  ELSE IF userId \notin userList THEN "unknown"
  ELSE IF ~Includes(safeAssignees, userId) THEN "unassigned"
  ELSE "accepted"

\* safeAssignees.filter(id => id !== userId)
Without(assignees, userId) ==
  LET Other(id) == id # userId IN SelectSeq(assignees, Other)

\* the user is marked as processing, the list is updated optimistically and
\* the patch is sent
IssueAssign(documentId, userId, op, safeAssignees, newAssignees) ==
  /\ assigns < MaxAssigns
  /\ assigns' = assigns + 1
  /\ processingUsers' = [processingUsers EXCEPT ![documentId] = @ \cup {userId}]
  /\ data' = UpdateAssignees(data, documentId, newAssignees)
  /\ pendingAssign' = pendingAssign \cup
       {[doc |-> documentId, user |-> userId, op |-> op,
         safeAssignees |-> safeAssignees, instance |-> mounts[documentId],
         shown |-> ItemOf(data, documentId).assignees]}

\* a call that returned early leaves a toast at most
AssignCall(documentId, userId, op, safeAssignees, newAssignees, outcome) ==
  /\ lastAssign' = [op |-> op, doc |-> documentId, user |-> userId,
                    outcome |-> outcome, before |-> safeAssignees]
  /\ IF outcome = "accepted"
     THEN IssueAssign(documentId, userId, op, safeAssignees, newAssignees)
     ELSE UNCHANGED <<data, processingUsers, pendingAssign, assigns>>
  /\ UNCHANGED <<states, user, store, undroppableStates, draggingFrom, dragging,
                 patchingIds, closureIds, pendingMoves, lastDrop, topRun, endRun, drops, lastCheck,
                 mounts, calendar, others>>

AddAssigneeOf(documentId, userId, safeAssignees) ==
  AssignCall(documentId, userId, "add", safeAssignees, Append(safeAssignees, userId),
             AddAssigneeOutcome(processingUsers[documentId], Users, safeAssignees, userId))

AddAssignee(documentId, userId) ==
  /\ FindDoc(data, documentId) > 0
  /\ AddAssigneeOf(documentId, userId, ItemOf(data, documentId).assignees)

RemoveAssigneeOf(documentId, userId, safeAssignees) ==
  AssignCall(documentId, userId, "remove", safeAssignees, Without(safeAssignees, userId),
             RemoveAssigneeOutcome(processingUsers[documentId], Users, safeAssignees,
                                   userId))

RemoveAssignee(documentId, userId) ==
  /\ FindDoc(data, documentId) > 0
  /\ RemoveAssigneeOf(documentId, userId, ItemOf(data, documentId).assignees)

\* UserSelectMenu: a click on a user of the menu
HandleUserToggle(documentId, userId) ==
  /\ FindDoc(data, documentId) > 0
  /\ userId \notin processingUsers[documentId]
  /\ IF Includes(ItemOf(data, documentId).assignees, userId)
     THEN RemoveAssignee(documentId, userId)
     ELSE AddAssignee(documentId, userId)

\* a variant that leaves the optimistic list in place
KeepOptimistic(items, documentId, safeAssignees) == items

\* the catch handlers: onAssigneesChange?.(safeAssignees)
RevertOptimistic(items, documentId, safeAssignees) ==
  UpdateAssignees(items, documentId, safeAssignees)

\* the patch as the store applies it
PatchAssignees(stored, op, userId) ==
  IF op = "add" THEN Append(stored, userId) ELSE Without(stored, userId)

\* a variant whose catch handler leaves the processing set as it is
SettledProcessingOnSuccess(processing, userId, ok) ==
  IF ok THEN processing \ {userId} ELSE processing

\* then and catch alike: newSet.delete(userId)
SettledProcessing(processing, userId, ok) == processing \ {userId}

\* the then and catch handlers of the patch; the processing set they update
\* is the one of the instance that sent the patch. The handlers leave the
\* local list alone on success; refetch says whether the live query has
\* brought the stored list in by then
AssignSettleWith(c, ok, refetch) ==
  /\ c \in pendingAssign
  /\ pendingAssign' = pendingAssign \ {c}
  /\ processingUsers' =
       IF c.instance = mounts[c.doc]
       THEN [processingUsers EXCEPT ![c.doc] = SettledProcessing(@, c.user, ok)]
       ELSE processingUsers
  /\ lastAssign' = [op |-> c.op, doc |-> c.doc, user |-> c.user,
                    outcome |-> IF ok THEN "settled" ELSE "failed",
                    before |-> c.shown]
  /\ IF ok
     THEN /\ store' = UpdateAssignees(store, c.doc,
                        PatchAssignees(ItemOf(store, c.doc).assignees, c.op, c.user))
          /\ data' = IF refetch THEN Refetch(store') ELSE data
     ELSE /\ data' = RevertOptimistic(data, c.doc, c.safeAssignees)
          /\ UNCHANGED store
  /\ UNCHANGED <<states, user, undroppableStates, draggingFrom, dragging, patchingIds, closureIds,
                 pendingMoves, lastDrop, topRun, endRun, drops, assigns, lastCheck,
                 mounts, calendar, others>>

\* a settlement followed by the live query's refetch
AssignSettle(c, ok) == AssignSettleWith(c, ok, TRUE)

\* the popover of a card is closed and opened again: its content is a new
\* UserAssignment whose processingUsers starts empty
Remount(documentId) ==
  /\ mounts[documentId] < MaxMounts
  /\ mounts' = [mounts EXCEPT ![documentId] = @ + 1]
  /\ processingUsers' = [processingUsers EXCEPT ![documentId] = {}]
  /\ UNCHANGED <<states, user, data, store, undroppableStates, draggingFrom, dragging,
                 patchingIds, closureIds, pendingMoves, pendingAssign, lastDrop, topRun, endRun,
                 drops, assigns, lastCheck, lastAssign, calendar, others>>

Next ==
  \/ \E d \in DocSet : HandleDragStart(d)
  \/ Drop
  \/ \E p \in pendingMoves, ok \in BOOLEAN : MoveSettle(p, ok)

\* the board on its own: drags, drops and the store's answers
Spec == Init /\ [][Next]_vars

(***************************************************************************)
(* One card on the board, with its assignees edited from the card           *)
(***************************************************************************)
\* which states require assignment
RequireChoices ==
  { <<FALSE, FALSE, FALSE>>, <<FALSE, TRUE, FALSE>>,
    <<FALSE, TRUE, TRUE>>, <<TRUE, TRUE, TRUE>> }

\* the transitions list of each state: absent, empty, forward only, or naming itself
TransitionChoices ==
  { <<Undefined, Undefined, Undefined>>,
    <<Some({}), Some({}), Some({})>>,
    <<Some({"review"}), Some({"approved", "draft"}), Undefined>>,
    <<Some({"draft", "review"}), Some({"review"}), Some({"draft"})>> }

CardConfigs ==
  { [i \in 1..Len(StateIds) |-> StateRecord(StateIds[i], Undefined, t[i], r[i])] :
      r \in RequireChoices, t \in TransitionChoices }

InitCard ==
  /\ states \in CardConfigs
  /\ user = Some([id |-> "u1", roles |-> {"editor"}])
  /\ \E s \in StateIdSet :
       store = <<Item(Docs[1], s, <<>>, InitialRank(1))>>
  /\ InitRest

NextCard ==
  \/ \E d \in DocSet : HandleDragStart(d)
  \/ Drop
  \/ \E p \in pendingMoves, ok \in BOOLEAN : MoveSettle(p, ok)
  \/ \E d \in DocSet, u \in Users : HandleUserToggle(d, u)
  \/ \E c \in pendingAssign, ok \in BOOLEAN : AssignSettle(c, ok)

SpecCard == InitCard /\ [][NextCard]_vars

(***************************************************************************)
(* The board over records whose orderRank is missing or is not a rank       *)
(***************************************************************************)
\* the string "abc"
Malformed == <<10, 11, 12>>

CorruptRanks == {<<>>, Malformed}

InitCorrupt ==
  /\ states = ReviewFlow
  /\ user = Some([id |-> "u1", roles |-> {"editor"}])
  /\ \E k \in 1..Len(Docs), bad \in CorruptRanks :
       store = BoardOf("review",
                       [i \in 1..Len(Docs) |-> IF i = k THEN bad ELSE InitialRank(i)])
  /\ InitRest

SpecCorrupt == InitCorrupt /\ [][Next]_vars

(***************************************************************************)
(* canUserTransitionToState over users, target states and assignees         *)
(***************************************************************************)
RoleChoices == {Undefined} \cup {Some(R) : R \in SUBSET Roles}

AssigneeChoices == {<<>>, <<"u1">>, <<"u2">>, <<"u2", "u1">>}

\* the transition menu asks whether the user may move the document to targetId
CheckTransition(documentId, targetId) ==
  LET pos == FindDoc(data, documentId)
      k == FindStateIndex(states, targetId)
      targetState == IF k >= 0 THEN Some(states[k + 1]) ELSE Undefined
  IN /\ pos > 0
     /\ lastCheck' =
          [doc |-> documentId, target |-> targetId,
           result |-> CanUserTransitionToState(user, targetState, data[pos].assignees)]
     /\ UNCHANGED <<states, user, data, store, undroppableStates, draggingFrom, dragging,
                    patchingIds, closureIds, pendingMoves, processingUsers, pendingAssign, lastDrop,
                    topRun, endRun, drops, assigns>>
     /\ UNCHANGED <<assignment, calendar, others>>

InitPerm ==
  /\ \E roles \in RoleChoices, requireAssignment \in BOOLEAN :
       states = <<StateRecord("review", roles, Undefined, requireAssignment)>>
  /\ user \in {Undefined} \cup {Some([id |-> "u1", roles |-> R]) : R \in SUBSET Roles}
  /\ \E a \in AssigneeChoices : store = <<Item(Docs[1], "draft", a, InitialRank(1))>>
  /\ InitRest

NextPerm == \E d \in DocSet, t \in StateIdSet : CheckTransition(d, t)

SpecPerm == InitPerm /\ [][NextPerm]_vars

(***************************************************************************)
(* useListeningQuery: the initial fetch, the subscription, the refetches     *)
(***************************************************************************)
\* a change of the store reaches the client once the subscription stands
Notify(hasResult) ==
  IF listening.phase = "listening" THEN Append(notifications, hasResult)
  ELSE notifications

\* changes made here wait until earlier ones have been seen through
Room == Len(notifications) + Len(fetches) + Cardinality(transitioning) < MaxInFlight

RemoveAt(seq, i) == SubSeq(seq, 1, i - 1) \o SubSeq(seq, i + 1, Len(seq))

\* the store evaluates the initial fetch
InitialRead ==
  /\ listening.phase = "fetch"
  /\ listening' = [listening EXCEPT !.phase = "response",
                                    !.initialResult = ScheduledQuery(metadata)]
  /\ UNCHANGED <<states, user, board, assignment, others>>
  /\ UNCHANGED <<metadata, scheduledDocuments, fetches, notifications, contextMenu,
                 selectedEvent, dependencies, transitioning, lastCommit, lastDep,
                 isModalOpen, remotes>>

\* the initial result arrives: setData, then the subscription is set up
InitialArrive ==
  /\ listening.phase = "response"
  /\ scheduledDocuments' =
       IF listening.isMounted THEN listening.initialResult ELSE scheduledDocuments
  /\ listening' = [listening EXCEPT !.phase = "listening", !.initialResult = <<>>]
  /\ UNCHANGED <<states, user, board, assignment, others>>
  /\ UNCHANGED <<metadata, fetches, notifications, contextMenu, selectedEvent,
                 dependencies, transitioning, lastCommit, lastDep, isModalOpen, remotes>>

\* next: an update that carries a result starts a refetch
NotificationArrive ==
  /\ notifications # <<>>
  /\ notifications' = Tail(notifications)
  /\ fetches' = IF listening.isMounted /\ Head(notifications)
                 THEN Append(fetches, Undefined) ELSE fetches
  /\ UNCHANGED <<states, user, board, assignment, others>>
  /\ UNCHANGED <<metadata, scheduledDocuments, listening, contextMenu, selectedEvent,
                 dependencies, transitioning, lastCommit, lastDep, isModalOpen, remotes>>

\* the store evaluates a refetch
FetchRead(i) ==
  /\ ~IsDefined(fetches[i])
  /\ fetches' = [fetches EXCEPT ![i] = Some(ScheduledQuery(metadata))]
  /\ UNCHANGED <<states, user, board, assignment, others>>
  /\ UNCHANGED <<metadata, scheduledDocuments, listening, notifications, contextMenu,
                 selectedEvent, dependencies, transitioning, lastCommit, lastDep,
                 isModalOpen, remotes>>

\* a refetch resolves: setData(freshResult)
FetchArrive(i) ==
  /\ IsDefined(fetches[i])
  /\ scheduledDocuments' =
       IF listening.isMounted THEN Get(fetches[i]) ELSE scheduledDocuments
  /\ fetches' = RemoveAt(fetches, i)
  /\ UNCHANGED <<states, user, board, assignment, others>>
  /\ UNCHANGED <<metadata, listening, notifications, contextMenu, selectedEvent,
                 dependencies, transitioning, lastCommit, lastDep, isModalOpen, remotes>>

\* lines 223-228: isMounted = false; the subscription is unsubscribed if the
\* variable holds one by now
Cleanup(listened) ==
  [listened EXCEPT !.isMounted = FALSE,
                   !.phase = IF @ = "listening" THEN "unsubscribed" ELSE @]

\* the effect is torn down: the component unmounts
Teardown ==
  /\ listening.isMounted
  /\ listening' = Cleanup(listening)
  /\ notifications' = IF listening'.phase = "unsubscribed" THEN <<>> ELSE notifications
  /\ UNCHANGED <<states, user, board, assignment, others>>
  /\ UNCHANGED <<metadata, scheduledDocuments, fetches, contextMenu, selectedEvent,
                 dependencies, transitioning, lastCommit, lastDep, isModalOpen, remotes>>

\* the steps of the hook and of the network
Listen ==
  \/ InitialRead
  \/ InitialArrive
  \/ NotificationArrive
  \/ \E i \in 1..Len(fetches) : FetchRead(i) \/ FetchArrive(i)

(***************************************************************************)
(* Other clients                                                            *)
(***************************************************************************)
Remote(documentId, changed, hasResult) ==
  /\ remotes < MaxRemotes
  /\ changed # metadata[documentId]
  /\ metadata' = [metadata EXCEPT ![documentId] = changed]
  /\ notifications' = Notify(hasResult)
  /\ remotes' = remotes + 1
  /\ UNCHANGED <<states, user, board, assignment, others>>
  /\ UNCHANGED <<scheduledDocuments, listening, fetches, contextMenu, selectedEvent,
                 dependencies, transitioning, lastCommit, lastDep, isModalOpen>>

\* another client moves the document
RemoteSetState(documentId, stateId) ==
  /\ IsDefined(metadata[documentId])
  /\ Remote(documentId, Some([Get(metadata[documentId]) EXCEPT !.state = stateId]), TRUE)

\* another client assigns the user or takes the assignment away
RemoteToggleAssignee(documentId, userId) ==
  /\ IsDefined(metadata[documentId])
  /\ Remote(documentId,
            Some([Get(metadata[documentId]) EXCEPT
                    !.assignees = IF Includes(@, userId) THEN Without(@, userId)
                                  ELSE Append(@, userId)]),
            TRUE)

\* another client completes the workflow: the record is deleted; whether the
\* listener event of a deletion carries a result is left open
RemoteComplete(documentId) ==
  /\ IsDefined(metadata[documentId])
  /\ \E hasResult \in BOOLEAN : Remote(documentId, Undefined, hasResult)

(***************************************************************************)
(* CalendarView and QuickEditModal                                          *)
(***************************************************************************)
\* onContextMenu of an event of the calendar; the open modal covers the calendar
HandleContextMenu(calendarEvent) ==
  /\ ~isModalOpen
  /\ contextMenu' = Some(calendarEvent)
  /\ UNCHANGED <<states, user, board, assignment, others>>
  /\ UNCHANGED <<metadata, scheduledDocuments, listening, fetches, notifications,
                 selectedEvent, dependencies, transitioning, lastCommit, lastDep,
                 isModalOpen, remotes>>

HandleContextMenuClose ==
  /\ contextMenu # <<>>
  /\ contextMenu' = <<>>
  /\ UNCHANGED <<states, user, board, assignment, others>>
  /\ UNCHANGED <<metadata, scheduledDocuments, listening, fetches, notifications,
                 selectedEvent, dependencies, transitioning, lastCommit, lastDep,
                 isModalOpen, remotes>>

\* a click on an event opens the modal on it; the modal's state follows its
\* document prop
HandleEventClick(event) ==
  /\ ~isModalOpen
  /\ contextMenu = <<>>
  /\ selectedEvent' = Some(event)
  /\ isModalOpen' = TRUE
  /\ dependencies' = event.dependencies
  /\ UNCHANGED <<states, user, board, assignment, others>>
  /\ UNCHANGED <<metadata, scheduledDocuments, listening, fetches, notifications,
                 contextMenu, transitioning, lastCommit, lastDep, remotes>>

HandleModalClose ==
  /\ isModalOpen
  /\ isModalOpen' = FALSE
  /\ selectedEvent' = <<>>
  /\ dependencies' = <<>>
  /\ UNCHANGED <<states, user, board, assignment, others>>
  /\ UNCHANGED <<metadata, scheduledDocuments, listening, fetches, notifications,
                 contextMenu, transitioning, lastCommit, lastDep, remotes>>

\* a variant of the patch that also empties the assignees
PatchStateUnassign(record, newState) ==
  [record EXCEPT !.state = newState, !.assignees = <<>>]

\* client.patch(metadataDoc._id).set({state: newState})
PatchState(record, newState) == [record EXCEPT !.state = newState]

\* handleQuickStateTransition, handleStateTransition up to the patch: the
\* metadata document is fetched, and the handler throws if there is none
BeginTransition(via, event, newState) ==
  /\ Room
  /\ IF IsDefined(metadata[event.documentId])
     THEN /\ transitioning' = transitioning \cup
               {[via |-> via, documentId |-> event.documentId, newState |-> newState,
                 document |-> event]}
          /\ UNCHANGED lastCommit
     ELSE /\ lastCommit' = [kind |-> "not found", doc |-> event.documentId,
                            to |-> newState, before |-> <<>>, after |-> <<>>]
          /\ UNCHANGED transitioning
  /\ UNCHANGED <<states, user, board, assignment, others>>
  /\ UNCHANGED <<metadata, scheduledDocuments, listening, fetches, notifications,
                 selectedEvent, dependencies, lastDep, isModalOpen, remotes>>

\* the arrow button of an event: one of the transitions rendered for it
ArrowTransition(event) ==
  /\ ~isModalOpen
  /\ contextMenu = <<>>
  /\ \E newState \in GetAvailableTransitionsForEventWithPermissions(user, event) :
       BeginTransition("arrow", event, newState)
  /\ UNCHANGED contextMenu

\* an entry of the context menu, which closes
MenuTransition(event) ==
  /\ \E newState \in GetAvailableTransitionsForEventWithPermissions(user, event) :
       BeginTransition("menu", event, newState)
  /\ contextMenu' = <<>>

\* a transition button of the modal; the buttons are disabled while a
\* transition of the modal is on its way
ModalTransition(document) ==
  /\ isModalOpen
  /\ \A t \in transitioning : t.via # "modal"
  /\ \E newState \in GetAvailableTransitionsForEventWithPermissions(user, document) :
       BeginTransition("modal", document, newState)
  /\ UNCHANGED contextMenu

\* what the handler does once the patch is committed: the modal hands the
\* updated document to handleModalSave
AfterCommit(t) ==
  IF t.via = "modal"
  THEN /\ selectedEvent' = Some([t.document EXCEPT !.workflowState = t.newState])
       /\ dependencies' = t.document.dependencies
  ELSE UNCHANGED <<selectedEvent, dependencies>>

Committed(t, before, after) ==
  /\ metadata' = [metadata EXCEPT ![t.documentId] = Some(after)]
  /\ lastCommit' = [kind |-> "committed", doc |-> t.documentId,
                    to |-> t.newState, before |-> Some(before), after |-> Some(after)]
  /\ notifications' = Notify(TRUE)
  /\ AfterCommit(t)

\* the patch reaches the store; it fails if the record is gone
CommitTransition(t) ==
  /\ t \in transitioning
  /\ transitioning' = transitioning \ {t}
  /\ IF IsDefined(metadata[t.documentId])
     THEN Committed(t, Get(metadata[t.documentId]),
                    PatchState(Get(metadata[t.documentId]), t.newState))
     ELSE /\ lastCommit' = [kind |-> "failed", doc |-> t.documentId,
                            to |-> t.newState, before |-> <<>>, after |-> <<>>]
          /\ UNCHANGED <<metadata, notifications, selectedEvent, dependencies>>
  /\ UNCHANGED <<states, user, board, assignment, others>>
  /\ UNCHANGED <<scheduledDocuments, listening, fetches, contextMenu, lastDep,
                 isModalOpen, remotes>>

(***************************************************************************)
(* DependencyManager inside the modal                                       *)
(***************************************************************************)
\* the documents offered as dependencies: scheduled, and not the current one
AvailableDocuments(documentId) ==
  {d \in DocSet : IsDefined(metadata[d]) /\ d # documentId}

HasCircularDependency(currentDependencies, newDependencyId) ==
  Includes(currentDependencies, newDependencyId)

\* a variant that appends without looking at the list
AddDependencyUnchecked(currentDependencies, documentId) ==
  Append(currentDependencies, documentId)

\* the list handleAddDependency passes to onDependenciesChange, or the
\* current one where it returns early
AddDependency(currentDependencies, documentId) ==
  IF Includes(currentDependencies, documentId) THEN currentDependencies
  ELSE IF HasCircularDependency(currentDependencies, documentId) THEN currentDependencies
  ELSE Append(currentDependencies, documentId)

\* a variant that removes the first occurrence and everything after it
RemoveDependencyAndRest(currentDependencies, documentId) ==
  IF Includes(currentDependencies, documentId)
  THEN SubSeq(currentDependencies, 1, IndexOf(currentDependencies, documentId) - 1)
  ELSE currentDependencies

\* currentDependencies.filter(id => id !== documentId)
RemoveDependency(currentDependencies, documentId) ==
  Without(currentDependencies, documentId)

DependencyCall(op, documentId, after) ==
  /\ isModalOpen
  /\ selectedEvent # <<>>
  /\ dependencies' = after
  /\ lastDep' = [op |-> op, document |-> Get(selectedEvent).documentId,
                 id |-> documentId, before |-> dependencies, after |-> after,
                 previous |-> [op |-> lastDep.op, document |-> lastDep.document,
                               id |-> lastDep.id, before |-> lastDep.before]]
  /\ UNCHANGED <<states, user, board, assignment, others>>
  /\ UNCHANGED <<metadata, scheduledDocuments, listening, fetches, notifications,
                 contextMenu, selectedEvent, transitioning, lastCommit, isModalOpen,
                 remotes>>

HandleAddDependency(documentId) ==
  DependencyCall("add", documentId, AddDependency(dependencies, documentId))

HandleRemoveDependency(documentId) ==
  DependencyCall("remove", documentId, RemoveDependency(dependencies, documentId))

\* the patch of handleSave
PatchSchedule(record, document, deps) ==
  [record EXCEPT !.publishSchedule =
                    [scheduledDate |-> document.date, publishStatus |-> document.status,
                     dependencies |-> deps],
                 !.assignees = document.assignees]

\* handleSave: the schedule, the dependencies and the assignees are patched,
\* then the modal closes; a failed patch leaves the modal open
\* String.prototype.trim() on a sequence of characters
Trim(title) ==
  LET Inked == {i \in 1..Len(title) : title[i] # " "}
  IN IF Inked = {} THEN <<>>
     ELSE SubSeq(title, CHOOSE i \in Inked : \A j \in Inked : i <= j,
                        CHOOSE i \in Inked : \A j \in Inked : j <= i)

\* lines 73-134 for the title typed into the modal. first: the metadata patch
\* of lines 91-101 is reached and commits; second: the title patch of lines
\* 103-109 is skipped or commits as well, so lines 111-123 run
HandleSaveOf(document, id, title, first, second) ==
  /\ isModalOpen
  /\ Room
  /\ metadata' = IF first
                 THEN [metadata EXCEPT ![id] =
                         Some(PatchSchedule(Get(@), document, dependencies))]
                 ELSE metadata
  /\ notifications' = IF first THEN Notify(TRUE) ELSE notifications
  /\ titles' = IF second THEN [titles EXCEPT ![id] = title] ELSE titles
  /\ selectedEvent' = IF second THEN <<>> ELSE selectedEvent
  /\ isModalOpen' = ~second
  /\ dependencies' = IF second THEN <<>> ELSE dependencies
  /\ lastSave' =
       [outcome |-> IF Trim(title) = <<>> THEN "blank"
                    ELSE IF second THEN "saved" ELSE "failed",
        document |-> id, title |-> title,
        before |-> metadata[id], after |-> metadata'[id],
        titleBefore |-> titles[id], titleAfter |-> titles'[id],
        onSave |-> second, open |-> isModalOpen']
  /\ UNCHANGED <<states, user, board, assignment, lastFilter, plugin>>
  /\ UNCHANGED <<scheduledDocuments, listening, fetches, contextMenu, transitioning,
                 lastCommit, lastDep, remotes>>

\* the title patch is issued only for a changed title
TitlePatchDone(id, title, titleOk) == title = titles[id] \/ titleOk

MetadataPatchDone(id, title, metadataOk) ==
  Trim(title) # <<>> /\ IsDefined(metadata[id]) /\ metadataOk

\* metadataOk, titleOk: whether the store accepts the two patches
HandleSaveWith(document, title, metadataOk, titleOk) ==
  HandleSaveOf(document, document.documentId, title,
               MetadataPatchDone(document.documentId, title, metadataOk),
               /\ MetadataPatchDone(document.documentId, title, metadataOk)
               /\ TitlePatchDone(document.documentId, title, titleOk))

\* a save of the title as it stands, with a store that accepts the patch
HandleSave(document) ==
  HandleSaveWith(document, titles[document.documentId], TRUE, TRUE)

(***************************************************************************)
(* One card whose assignees are edited, its popover closed and reopened     *)
(***************************************************************************)
\* an id that is not among the project's users
Stranger == "u9"

InitAssign ==
  /\ states = ReviewFlow
  /\ user = Some([id |-> "u1", roles |-> {"editor"}])
  /\ \E a \in {<<>>, <<"u1">>} : store = <<Item(Docs[1], "review", a, InitialRank(1))>>
  /\ InitRest

NextAssign ==
  \/ \E d \in DocSet, u \in Users : HandleUserToggle(d, u)
  \/ \E d \in DocSet, u \in Users \cup {Stranger} : AddAssignee(d, u)
  \/ \E d \in DocSet, u \in Users \cup {Stranger} : RemoveAssignee(d, u)
  \/ \E c \in pendingAssign, ok \in BOOLEAN : AssignSettle(c, ok)
  \/ \E d \in DocSet : FindDoc(data, d) > 0 /\ Remount(d)

SpecAssign == InitAssign /\ [][NextAssign]_vars

(***************************************************************************)
(* The calendar on its own                                                  *)
(***************************************************************************)
\* the calendar is opened: the hook starts with its initial value and the
\* initial fetch is on its way
InitCalendar ==
  /\ states = DefaultStates
  /\ store = <<>>
  /\ InitBoard
  /\ InitAssignment
  /\ InitOthers
  /\ scheduledDocuments = <<>>
  /\ listening = [phase |-> "fetch", initialResult |-> <<>>, isMounted |-> TRUE]
  /\ fetches = <<>>
  /\ notifications = <<>>
  /\ contextMenu = <<>>
  /\ selectedEvent = <<>>
  /\ dependencies = <<>>
  /\ transitioning = {}
  /\ lastCommit = NoCommit
  /\ lastDep = NoDep
  /\ isModalOpen = FALSE
  /\ remotes = 0

\* the store holds the given records and nothing else
Only(records) == [d \in DocSet |-> IF d \in DOMAIN records THEN records[d] ELSE Undefined]

\* one scheduled document in review, watched while other clients change it
InitListen ==
  /\ user = Some([id |-> "u1", roles |-> {"editor"}])
  /\ metadata = Only("d1" :> Some(Metadata("d1", "inReview", <<>>, 1, <<>>)))
  /\ InitCalendar

Changes ==
  \/ \E d \in DocSet, s \in DefaultStateIds : RemoteSetState(d, s)
  \/ \E d \in DocSet : RemoteToggleAssignee(d, "u1")
  \/ \E d \in DocSet : RemoteComplete(d)

NextListen == Listen \/ Changes

SpecListen == InitListen /\ [][NextListen]_vars

\* the same, and the calendar may be left at any moment
NextTeardown == Listen \/ Changes \/ Teardown

SpecTeardown == InitListen /\ [][NextTeardown]_vars

\* every fetch is answered and every notification delivered
FairListen ==
  /\ SpecListen
  /\ WF_vars(InitialRead)
  /\ WF_vars(InitialArrive)
  /\ WF_vars(NotificationArrive)
  /\ \A i \in 1..MaxRemotes : WF_vars(i <= Len(fetches) /\ (FetchRead(i) \/ FetchArrive(i)))

\* one scheduled document, an editor or an administrator at the calendar,
\* and other clients
InitQuick ==
  /\ user \in {Some([id |-> "u1", roles |-> R]) : R \in {{"editor"}, {"administrator"}}}
  /\ \E s \in DefaultStateIds, a \in {<<>>, <<"u1">>} :
       metadata = Only("d1" :> Some(Metadata("d1", s, a, 1, <<>>)))
  /\ InitCalendar

Clicks ==
  \/ \E i \in 1..Len(scheduledDocuments) :
       HandleContextMenu(EventOf(scheduledDocuments[i]))
  \/ HandleContextMenuClose
  \/ \E i \in 1..Len(scheduledDocuments) :
       HandleEventClick(EventOf(scheduledDocuments[i]))
  \/ HandleModalClose

QuickTransitions ==
  \/ \E i \in 1..Len(scheduledDocuments) :
       ArrowTransition(EventOf(scheduledDocuments[i]))
  \/ contextMenu # <<>> /\ MenuTransition(Get(contextMenu))
  \/ selectedEvent # <<>> /\ ModalTransition(Get(selectedEvent))
  \/ \E t \in transitioning : CommitTransition(t)

NextQuick == Listen \/ Changes \/ Clicks \/ QuickTransitions

SpecQuick == InitQuick /\ [][NextQuick]_vars

\* two scheduled documents whose dependencies are edited in the modal
InitDeps ==
  /\ user = Some([id |-> "u1", roles |-> {"editor"}])
  /\ metadata = Only("d1" :> Some(Metadata("d1", "inReview", <<>>, 1, <<>>)) @@
                     "d2" :> Some(Metadata("d2", "inReview", <<>>, 2, <<>>)))
  /\ InitCalendar

OpenAndClose ==
  \/ \E i \in 1..Len(scheduledDocuments) :
       HandleEventClick(EventOf(scheduledDocuments[i]))
  \/ HandleModalClose

Save == selectedEvent # <<>> /\ HandleSave(Get(selectedEvent))

\* the add button of an offered document, the remove button of a listed one
DependencyButtons ==
  \/ /\ selectedEvent # <<>>
     /\ \E d \in AvailableDocuments(Get(selectedEvent).documentId) : HandleAddDependency(d)
  \/ \E i \in 1..Len(dependencies) : HandleRemoveDependency(dependencies[i])

NextDeps == Listen \/ OpenAndClose \/ Save \/ DependencyButtons

SpecDeps == InitDeps /\ [][NextDeps]_vars

\* the titles that can be typed into the modal
TitleChoices == {<<>>, <<" ">>, <<"a">>, <<" ", "b">>}

\* a save of any title, with a store that accepts or refuses either patch
SaveAny ==
  /\ selectedEvent # <<>>
  /\ \E title \in TitleChoices, metadataOk \in BOOLEAN, titleOk \in BOOLEAN :
       HandleSaveWith(Get(selectedEvent), title, metadataOk, titleOk)

NextSave == Listen \/ OpenAndClose \/ SaveAny \/ DependencyButtons

SpecSave == InitDeps /\ [][NextSave]_vars

\* handleAddDependency and handleRemoveDependency called with any document id
DependencyCalls ==
  \/ \E d \in DocSet : HandleAddDependency(d)
  \/ \E d \in DocSet : HandleRemoveDependency(d)

\* the calendar has loaded its three documents and nothing else changes them
InitDepCalls ==
  /\ user = Some([id |-> "u1", roles |-> {"editor"}])
  /\ metadata = [d \in DocSet |->
                   Some(Metadata(d, "inReview", <<>>, IndexOf(Docs, d), <<>>))]
  /\ states = DefaultStates
  /\ store = <<>>
  /\ InitBoard
  /\ InitAssignment
  /\ InitOthers
  /\ scheduledDocuments = ScheduledQuery(metadata)
  /\ listening = [phase |-> "listening", initialResult |-> <<>>, isMounted |-> TRUE]
  /\ fetches = <<>>
  /\ notifications = <<>>
  /\ contextMenu = <<>>
  /\ selectedEvent = <<>>
  /\ dependencies = <<>>
  /\ transitioning = {}
  /\ lastCommit = NoCommit
  /\ lastDep = NoDep
  /\ isModalOpen = FALSE
  /\ remotes = 0

NextDepCalls == OpenAndClose \/ DependencyCalls

SpecDepCalls == InitDepCalls /\ [][NextDepCalls]_vars

(***************************************************************************)
(* filterItemsAndSort called on the items of a column                      *)
(***************************************************************************)
SchemaTypes == {"post", "page"}

\* documents with metadata as the board holds them; the second set lacks
\* _metadata.assignees
ItemChoices ==
  [documentId : {"d1"}, hasId : BOOLEAN, type : SchemaTypes, state : {"draft", "review"},
   assignees : {<<>>, <<"u1">>, <<"u2", "u1">>},
   orderRank : {InitialRank(1), InitialRank(2)}]
  \cup
  [documentId : {"d1"}, hasId : BOOLEAN, type : SchemaTypes, state : {"draft", "review"},
   orderRank : {InitialRank(1), InitialRank(2)}]

ItemLists == UNION {[1..n -> ItemChoices] : n \in 0..MaxItems}

SelectedUsersChoices == {<<>>, <<"u1">>, <<"u3", "u2">>}

SelectedSchemaTypesChoices ==
  {Undefined, Some(<<>>), Some(<<"post">>), Some(<<"page", "post">>)}

\* the arguments of a call that has not been made yet
FilterArguments(items, stateId, selectedUsers, selectedSchemaTypes) ==
  [called |-> FALSE, items |-> items, stateId |-> stateId,
   selectedUsers |-> selectedUsers, selectedSchemaTypes |-> selectedSchemaTypes,
   result |-> <<>>]

FilterCall ==
  /\ ~lastFilter.called
  /\ lastFilter' =
       [lastFilter EXCEPT
          !.called = TRUE,
          !.result = FilterItemsAndSort(lastFilter.items, lastFilter.stateId,
                                        lastFilter.selectedUsers,
                                        lastFilter.selectedSchemaTypes)]
  /\ UNCHANGED <<states, user, board, assignment, calendar, plugin, titles, lastSave>>

InitFilter ==
  /\ states = ReviewFlow
  /\ user = Some([id |-> "u1", roles |-> {"editor"}])
  /\ store = <<>>
  /\ InitBoard
  /\ mounts = [d \in DocSet |-> 0]
  /\ lastAssign = NoAssign
  /\ CalendarClosed
  /\ \E items \in ItemLists, selectedUsers \in SelectedUsersChoices,
        selectedSchemaTypes \in SelectedSchemaTypesChoices :
       lastFilter = FilterArguments(items, "review", selectedUsers, selectedSchemaTypes)
  /\ plugin = NoPlugin
  /\ InitSave

NextFilter == FilterCall

SpecFilter == InitFilter /\ [][NextFilter]_vars

(***************************************************************************)
(* The plugin is built from a configuration, then the calendar is opened    *)
(***************************************************************************)
StatesValues == {Undefined, Some(<<>>), Some(DefaultStates), Some(ReviewFlow)}

SchemaTypesValues == {Undefined, Some(<<>>), Some(<<"post">>), Some(<<"post", "page">>)}

\* no argument, or an object with or without each of the two keys
ConfigChoices ==
  {Undefined} \cup
  {Some(Config(hasStates, IF hasStates THEN statesValue ELSE Undefined,
               hasSchemaTypes, IF hasSchemaTypes THEN schemaTypesValue ELSE Undefined)) :
     hasStates \in BOOLEAN, statesValue \in StatesValues,
     hasSchemaTypes \in BOOLEAN, schemaTypesValue \in SchemaTypesValues}

\* the schemaTypes of DEFAULT_CONFIG are left open
DefaultConfigChoices == {DefaultConfig(<<>>), DefaultConfig(<<"post">>)}

\* the calendar tool's component is mounted
MountCalendar ==
  /\ plugin.phase = "defined"
  /\ listening = Idle
  /\ listening' = [phase |-> "fetch", initialResult |-> <<>>, isMounted |-> TRUE]
  /\ UNCHANGED <<metadata, scheduledDocuments, fetches, notifications, contextMenu,
                 selectedEvent, dependencies, transitioning, lastCommit, lastDep,
                 isModalOpen, remotes>>
  /\ UNCHANGED <<states, user, board, assignment, others>>

\* one scheduled document whose state is one of the default or of the custom
\* flow; the plugin is yet to be built
InitPlugin ==
  /\ states = <<>>
  /\ user \in {Some([id |-> "u1", roles |-> R]) : R \in {{"editor"}, {"administrator"}}}
  /\ store = <<>>
  /\ InitBoard
  /\ mounts = [d \in DocSet |-> 0]
  /\ lastAssign = NoAssign
  /\ scheduledDocuments = <<>>
  /\ listening = Idle
  /\ fetches = <<>>
  /\ notifications = <<>>
  /\ contextMenu = <<>>
  /\ selectedEvent = <<>>
  /\ dependencies = <<>>
  /\ transitioning = {}
  /\ lastCommit = NoCommit
  /\ lastDep = NoDep
  /\ isModalOpen = FALSE
  /\ remotes = 0
  /\ \E s \in {"inReview", "approved", "draft", "review"}, a \in {<<>>, <<"u1">>} :
       metadata = Only("d1" :> Some(Metadata("d1", s, a, 1, <<>>)))
  /\ lastFilter = NoFilter
  /\ \E defaults \in DefaultConfigChoices, config \in ConfigChoices :
       plugin = Unbuilt(defaults, config)
  /\ InitSave

NextPlugin == WorkflowManager \/ MountCalendar \/ InitialRead \/ InitialArrive \/ Clicks

SpecPlugin == InitPlugin /\ [][NextPlugin]_vars

(***************************************************************************)
(* One card on a board whose columns are restricted to roles                *)
(***************************************************************************)
RolesValues == {Undefined, Some({}), Some({"editor"}), Some({"administrator"})}

RoleConfigs ==
  { [i \in 1..Len(StateIds) |-> StateRecord(StateIds[i], r[i], t[i], FALSE)] :
      r \in [1..Len(StateIds) -> RolesValues], t \in TransitionChoices }

\* the current user: not loaded, without roles, or with one role
UserChoices ==
  {Undefined} \cup {Some([id |-> "u1", roles |-> R]) : R \in {{}, {"editor"}, {"administrator"}}}

InitRoles ==
  /\ states \in RoleConfigs
  /\ user \in UserChoices
  /\ \E s \in StateIdSet :
       store = <<Item(Docs[1], s, <<>>, InitialRank(1))>>
  /\ InitRest

NextRoles ==
  \/ \E d \in DocSet : HandleDragStart(d)
  \/ Drop
  \/ \E p \in pendingMoves, ok \in BOOLEAN : MoveSettle(p, ok)

SpecRoles == InitRoles /\ [][NextRoles]_vars

(***************************************************************************)
(* Overlapping assignee calls of one card, with no refetch in between       *)
(***************************************************************************)
InitOverlap ==
  /\ states = ReviewFlow
  /\ user = Some([id |-> "u1", roles |-> {"editor"}])
  /\ \E a \in AssigneeChoices : store = <<Item(Docs[1], "review", a, InitialRank(1))>>
  /\ InitRest

NextOverlap ==
  \/ \E d \in DocSet, u \in Users : HandleUserToggle(d, u)
  \/ \E c \in pendingAssign, ok \in BOOLEAN : AssignSettleWith(c, ok, FALSE)

SpecOverlap == InitOverlap /\ [][NextOverlap]_vars

(***************************************************************************)
(* The board when a drop may be handled before the render that a settled   *)
(* move has asked for                                                       *)
(***************************************************************************)
NextRender ==
  \/ \E d \in DocSet : HandleDragStart(d)
  \/ Drop
  \/ \E p \in pendingMoves, ok \in BOOLEAN : MoveSettleWith(p, ok, FALSE)
  \/ Render

SpecRender == Init /\ [][NextRender]_vars

(***************************************************************************)
(* Properties                                                               *)
(***************************************************************************)
Less(a, b) == LocaleCompare(a, b) < 0

\* the string "0|000000:"
MinRankString == <<0, Pipe, 0, 0, 0, 0, 0, 0, Colon>>

\* the string "0|100000:"
AfterMinRankString == <<0, Pipe, 1, 0, 0, 0, 0, 0, Colon>>

Distinct(ranks) ==
  \A i, j \in 1..Len(ranks) : i # j => ranks[i] # ranks[j]

StrictlyDescending(ranks) ==
  \A i \in 1..(Len(ranks) - 1) : Less(ranks[i + 1], ranks[i])

StrictlyAscending(ranks) ==
  \A i \in 1..(Len(ranks) - 1) : Less(ranks[i], ranks[i + 1])

\* the last drop went between two items of the destination that both carry a rank
DroppedBetweenTwo ==
  /\ lastDrop.kind = "moved"
  /\ lastDrop.branch = "between"
  /\ lastDrop.index >= 1
  /\ lastDrop.index + 1 <= Len(lastDrop.destRanks)
  /\ lastDrop.destRanks[lastDrop.index] # <<>>
  /\ lastDrop.destRanks[lastDrop.index + 1] # <<>>
  /\ Less(lastDrop.destRanks[lastDrop.index], lastDrop.destRanks[lastDrop.index + 1])

\* the last drop went into a state that held no items
DroppedIntoEmpty ==
  /\ lastDrop.kind = "moved"
  /\ lastDrop.destRanks = <<>>

\* this step is a drag start
DragStarts == dragging = <<>> /\ dragging' # <<>>

UserIsAssigned(document) ==
  IsDefined(user) /\ Includes(document.assignees, Get(user).id)

StateOf(id) == states[FindStateIndex(states, id) + 1]

HasTransitions(st) == IsDefined(st.transitions) /\ Get(st.transitions) # {}

\* C1: a drop at destination index i leaves the dropped document at position i
\* of the destination state's items sorted by orderRank.
C1_DropLandsAtIndex ==
  lastDrop.kind = "moved" => lastDrop.position = lastDrop.index

C3_RanksStayDistinct ==
  \A s \in StateIdSet : Distinct(RanksOf(Column(data, s)))

\* C4: successive drops at index 0 of a column that started empty give strictly
\* descending ranks, and successive drops at its end give strictly ascending ranks.
C4_RunsAreMonotone ==
  \A s \in StateIdSet :
    /\ StrictlyDescending(topRun[s])
    /\ StrictlyAscending(endRun[s])

\* C5: a drop into a state that holds no items gets the absolute minimum rank
\* when the state is the first configured one, and the rank right after the
\* absolute minimum, never the minimum itself, for every other state.
C5_EmptyStateRank ==
  DroppedIntoEmpty =>
    IF FindStateIndex(states, lastDrop.dest) = 0
    THEN lastDrop.newOrder = MinRankString
    ELSE lastDrop.newOrder = AfterMinRankString /\ lastDrop.newOrder # MinRankString

C5_Witness ==
  /\ DroppedIntoEmpty
  /\ lastDrop.source = "draft"
  /\ lastDrop.dest = "review"
  /\ lastDrop.newOrder = AfterMinRankString

\* C6: handleDragEnd always computes a rank and never raises, also when ranks
\* of the destination state or of the first or last record are missing or malformed.
C6_NeverRaises ==
  lastDrop.kind # "raised"

\* C7: the undroppable states computed at a drag start never contain the
\* dragged document's current state.
C7_SourceNeverUndroppable ==
  dragging # <<>> =>
    /\ ~Includes(undroppableStates, Get(dragging).source)
    /\ ~Includes(undroppableStates, draggingFrom)

C7_Witness ==
  /\ dragging # <<>>
  /\ StateOf(Get(dragging).source).requireAssignment
  /\ ~UserIsAssigned(ItemOf(data, Get(dragging).id))
  /\ undroppableStates # <<>>
  /\ assigns = 0

\* C8: at a drag start by a user who is not among the document's assignees
\* every state that requires assignment, other than the source state, is
\* undroppable; when the user is among the assignees no state is excluded on
\* account of requireAssignment.
C8_AssignmentExclusion ==
  [][DragStarts =>
       LET document == ItemOf(data, Get(dragging').id)
           source == Get(dragging').source
           Listed(id) == ~HasTransitions(StateOf(source))
                         \/ id \in Get(StateOf(source).transitions)
       IN IF UserIsAssigned(document)
          THEN \A i \in 1..Len(states) :
                 Includes(undroppableStates', states[i].id) => ~Listed(states[i].id)
          ELSE \A i \in 1..Len(states) :
                 states[i].requireAssignment /\ states[i].id # source
                   => Includes(undroppableStates', states[i].id)]_vars

C8_Witness ==
  /\ dragging # <<>>
  /\ Get(dragging).source = "draft"
  /\ StateOf("review").requireAssignment
  /\ ~Includes(undroppableStates, "review")
  /\ UserIsAssigned(ItemOf(data, Get(dragging).id))
  /\ UserIsAssigned(ItemOf(store, Get(dragging).id))
  /\ assigns > 0

\* C9: at a drag start from a state with a non-empty transitions list every
\* other state the list does not name is undroppable; from a state whose
\* transitions list is empty or absent no state is excluded on account of
\* transitions.
C9_TransitionExclusion ==
  [][DragStarts =>
       LET document == ItemOf(data, Get(dragging').id)
           source == Get(dragging').source
       IN IF HasTransitions(StateOf(source))
          THEN \A i \in 1..Len(states) :
                 states[i].id \notin Get(StateOf(source).transitions)
                 /\ states[i].id # source
                   => Includes(undroppableStates', states[i].id)
          ELSE \A i \in 1..Len(states) :
                 Includes(undroppableStates', states[i].id)
                   => states[i].requireAssignment /\ ~UserIsAssigned(document)]_vars

C9_Witness ==
  /\ dragging # <<>>
  /\ Get(dragging).source = "draft"
  /\ HasTransitions(StateOf("draft"))
  /\ "approved" \notin Get(StateOf("draft").transitions)
  /\ ~StateOf("approved").requireAssignment
  /\ Includes(undroppableStates, "approved")

\* C10: canUserTransitionToState is true exactly when the target state's roles
\* are empty or absent or the user holds one of them, and the target state does
\* not require assignment or the user is among the document's assignees.
C10_PermissionRule ==
  lastCheck.doc # "" /\ IsDefined(user) /\ FindStateIndex(states, lastCheck.target) >= 0 =>
    LET targetState == StateOf(lastCheck.target)
        assignees == ItemOf(data, lastCheck.doc).assignees
        roleOk == \/ ~IsDefined(targetState.roles)
                  \/ Get(targetState.roles) = {}
                  \/ Get(user).roles \cap Get(targetState.roles) # {}
        assignmentOk == \/ ~targetState.requireAssignment
                        \/ Includes(assignees, Get(user).id)
    IN lastCheck.result = (roleOk /\ assignmentOk)

\* the record has no element twice
NoDuplicates(seq) == \A i, j \in 1..Len(seq) : seq[i] = seq[j] => i = j

\* the dependencies the store holds for a document
StoredDependencies(d) ==
  IF IsDefined(metadata[d]) THEN Get(metadata[d]).publishSchedule.dependencies ELSE <<>>

\* b can be reached from a along at most n must-publish-before edges
RECURSIVE ReachableIn(_, _, _)
ReachableIn(a, b, n) ==
  /\ n > 0
  /\ \E c \in DocSet :
       /\ Includes(StoredDependencies(a), c)
       /\ (c = b \/ ReachableIn(c, b, n - 1))

\* a call on a user already assigned, not assigned, or not known
RejectedCase(call) ==
  /\ call.outcome \notin {"", "settled", "failed"}
  /\ \/ call.user \notin Users
     \/ call.op = "add" /\ Includes(call.before, call.user)
     \/ call.op = "remove" /\ ~Includes(call.before, call.user)

\* C11: a state change persisted by a quick transition goes from the stored
\* state to one of that state's transitions, and the acting user is permitted
\* at the time of the commit.
C11_QuickTransitionChecked ==
  lastCommit.kind = "committed" =>
    /\ lastCommit.to \in GetAvailableTransitionsForEvent(Get(lastCommit.before).state)
    /\ CanUserTransitionToState(user, DefaultState(lastCommit.to),
                                Get(lastCommit.before).assignees)

\* C12: a quick transition leaves the record's assignees, orderRank and
\* publishSchedule as they were.
C12_OnlyStateChanges ==
  lastCommit.kind = "committed" =>
    /\ Get(lastCommit.after).assignees = Get(lastCommit.before).assignees
    /\ Get(lastCommit.after).orderRank = Get(lastCommit.before).orderRank
    /\ Get(lastCommit.after).publishSchedule = Get(lastCommit.before).publishSchedule

C12_Witness ==
  /\ lastCommit.kind = "committed"
  /\ Get(lastCommit.after).state # Get(lastCommit.before).state
  /\ Get(lastCommit.before).assignees # <<>>

\* C13: when an assignee patch fails, the local list is put back to what it
\* was just before that call's optimistic update.
C13_FailureRestores ==
  [][(lastAssign' # lastAssign /\ lastAssign'.outcome = "failed") =>
       ItemOf(data', lastAssign'.doc).assignees = lastAssign'.before]_vars

C13_Witness ==
  /\ lastAssign.outcome = "failed"
  /\ lastAssign.op = "remove"
  /\ ItemOf(data, lastAssign.doc).assignees # <<>>

\* C14: no two assignee patches for the same document and the same user are
\* in flight at once.
C14_OneInFlight ==
  \A c1, c2 \in pendingAssign :
    (c1.doc = c2.doc /\ c1.user = c2.user) => c1 = c2

\* C15: a call for a user already assigned, not assigned, or unknown issues
\* no patch and changes neither the local list nor the processing set.
C15_RejectedChangesNothing ==
  [][(lastAssign' # lastAssign /\ RejectedCase(lastAssign')) =>
       UNCHANGED <<data, store, pendingAssign, processingUsers>>]_vars

C15_Witness ==
  /\ lastAssign.outcome = "duplicate"
  /\ pendingAssign = {}

\* C16: once the store has stopped changing, the hook's data comes to equal
\* the query's result on the store and stays so.
C16_EventuallyConsistent == <>[](scheduledDocuments = ScheduledQuery(metadata))

\* C17: adding the edited document to its own empty dependency list leaves
\* the list empty.
C17_SelfDependencyRejected ==
  (lastDep.op = "add" /\ lastDep.id = lastDep.document /\ lastDep.before = <<>>) =>
    lastDep.after = lastDep.before

\* C18: a candidate already listed is rejected, any other is appended at the
\* end, and no list ever holds an id twice.
C18_AddKeepsListsDistinct ==
  /\ lastDep.op = "add" =>
       lastDep.after = IF Includes(lastDep.before, lastDep.id) THEN lastDep.before
                       ELSE lastDep.before \o <<lastDep.id>>
  /\ NoDuplicates(dependencies)

C18_Witness ==
  /\ lastDep.op = "add"
  /\ Includes(lastDep.before, lastDep.id)
  /\ Len(lastDep.before) >= 2

\* C19: the must-publish-before graph the store holds has no cycle.
C19_NoCycle == \A d \in DocSet : ~ReachableIn(d, d, Len(Docs))

\* C20: removing deletes the id and keeps the rest in order, removing an
\* absent id changes nothing, and removing what was just added gives back
\* the list as it was.
C20_RemoveUndoesAdd ==
  lastDep.op = "remove" =>
    /\ ~Includes(lastDep.after, lastDep.id)
    /\ \E k \in 0..Len(lastDep.before) :
         /\ \A i \in 1..k : lastDep.before[i] # lastDep.id
         /\ lastDep.after = SubSeq(lastDep.before, 1, k) \o
                            SubSeq(lastDep.before, k + 2, Len(lastDep.before))
    /\ ~Includes(lastDep.before, lastDep.id) => lastDep.after = lastDep.before
    /\ ( /\ lastDep.previous.op = "add"
         /\ lastDep.previous.id = lastDep.id
         /\ lastDep.previous.document = lastDep.document
         /\ ~Includes(lastDep.previous.before, lastDep.id)
         /\ lastDep.before = lastDep.previous.before \o <<lastDep.id>> )
       => lastDep.after = lastDep.previous.before

C20_Witness ==
  /\ lastDep.op = "remove"
  /\ lastDep.previous.op = "add"
  /\ lastDep.previous.id = lastDep.id
  /\ lastDep.before = lastDep.previous.before \o <<lastDep.id>>
  /\ lastDep.after = lastDep.previous.before
  /\ Len(lastDep.after) >= 1

\* an existing item of the state
OfState(item, stateId) == item.hasId /\ item.state = stateId

\* the item's assignee list shares an id with the selection
SharesAssignee(item, selectedUsers) ==
  /\ "assignees" \in DOMAIN item
  /\ \E i \in 1..Len(item.assignees), j \in 1..Len(selectedUsers) :
       item.assignees[i] = selectedUsers[j]

Occurrences(seq, x) == Cardinality({i \in 1..Len(seq) : seq[i] = x})

\* the same items, each as often, in whatever order
SameItems(a, b) ==
  /\ Len(a) = Len(b)
  /\ \A i \in 1..Len(a) : Occurrences(a, a[i]) = Occurrences(b, a[i])

\* C21: with users selected and no type filter, the result holds exactly the
\* state's existing items that share an assignee with the selection, so items
\* with an empty or missing list are hidden; with no users selected they are
\* shown.
C21_UserFilterHidesUnassigned ==
  (lastFilter.called /\ lastFilter.selectedSchemaTypes = Undefined) =>
    LET Shown(item) ==
          /\ OfState(item, lastFilter.stateId)
          /\ \/ Len(lastFilter.selectedUsers) = 0
             \/ SharesAssignee(item, lastFilter.selectedUsers)
    IN SameItems(lastFilter.result, SelectSeq(lastFilter.items, Shown))

C21_Witness ==
  /\ lastFilter.called
  /\ lastFilter.selectedSchemaTypes = Undefined
  /\ Len(lastFilter.selectedUsers) > 0
  /\ Len(lastFilter.result) = 1
  /\ \E i \in 1..Len(lastFilter.items) :
       /\ OfState(lastFilter.items[i], lastFilter.stateId)
       /\ "assignees" \notin DOMAIN lastFilter.items[i]

\* C22: a null type selection lets every type pass, a non-empty one keeps
\* the items whose type it lists, and an empty one gives the empty result.
C22_TypeSelection ==
  lastFilter.called =>
    /\ lastFilter.selectedSchemaTypes = Some(<<>>) => lastFilter.result = <<>>
    /\ Len(lastFilter.selectedUsers) = 0 =>
         LET Shown(item) ==
               /\ OfState(item, lastFilter.stateId)
               /\ \/ lastFilter.selectedSchemaTypes = Undefined
                  \/ Includes(Get(lastFilter.selectedSchemaTypes), item.type)
         IN SameItems(lastFilter.result, SelectSeq(lastFilter.items, Shown))

C22_Witness ==
  /\ lastFilter.called
  /\ lastFilter.selectedSchemaTypes = Some(<<>>)
  /\ Len(lastFilter.selectedUsers) = 0
  /\ \E i \in 1..Len(lastFilter.items) : OfState(lastFilter.items[i], lastFilter.stateId)
  /\ lastFilter.result = <<>>

\* the argument has no list under the key: no argument, no key, or undefined
LacksStates(call) ==
  IF IsDefined(call.config)
  THEN ~Get(call.config).hasStates \/ ~IsDefined(Get(call.config).states)
  ELSE TRUE

LacksSchemaTypes(call) ==
  IF IsDefined(call.config)
  THEN ~Get(call.config).hasSchemaTypes \/ ~IsDefined(Get(call.config).schemaTypes)
  ELSE TRUE

\* the value a key has once the argument is laid over DEFAULT_CONFIG
EffectiveStates(call) ==
  IF IsDefined(call.config) /\ Get(call.config).hasStates
  THEN Get(call.config).states ELSE call.defaults.states

EffectiveSchemaTypes(call) ==
  IF IsDefined(call.config) /\ Get(call.config).hasSchemaTypes
  THEN Get(call.config).schemaTypes ELSE call.defaults.schemaTypes

\* C23 as stated: a configuration without a states list, or without a
\* schemaTypes list, makes the construction fail.
C23_MissingListIsFatal ==
  (plugin.phase # "config" /\ (LacksStates(plugin) \/ LacksSchemaTypes(plugin))) =>
    plugin.phase = "error"

\* C23: the construction fails, and defines no plugin, exactly when the
\* configuration laid over DEFAULT_CONFIG has no states or no schemaTypes, or
\* an empty list of either; a configuration that only omits the states is
\* built with the default states.
C23_EffectiveListIsFatal ==
  plugin.phase # "config" =>
    /\ plugin.phase = "error" <=>
         \/ EffectiveStates(plugin) \in {Undefined, Some(<<>>)}
         \/ EffectiveSchemaTypes(plugin) \in {Undefined, Some(<<>>)}
    /\ plugin.phase = "error" =>
         /\ plugin.error # ""
         /\ plugin.states = <<>>
         /\ plugin.schemaTypes = <<>>
         /\ states = <<>>
    /\ plugin.phase = "defined" =>
         /\ plugin.states = Get(EffectiveStates(plugin))
         /\ plugin.schemaTypes = Get(EffectiveSchemaTypes(plugin))

C23_Witness ==
  /\ plugin.phase = "error"
  /\ IsDefined(plugin.config)
  /\ ~Get(plugin.config).hasSchemaTypes
  /\ Get(plugin.config).states = Some(ReviewFlow)

\* the state of a states list that has the id
ConfiguredState(sts, id) == FindState(sts, FindStateIndex(sts, id))

\* the transitions the configured states give an event, for the user
ConfiguredOffer(sts, currentUser, event) ==
  LET currentState == ConfiguredState(sts, event.workflowState)
  IN IF IsDefined(currentState) /\ IsDefined(Get(currentState).transitions)
     THEN {t \in Get(Get(currentState).transitions) :
             /\ IsDefined(ConfiguredState(sts, t))
             /\ CanUserTransitionToState(currentUser, ConfiguredState(sts, t),
                                         event.assignees)}
     ELSE {}

\* what the arrows, the context menu or the modal offer for an event
OfferedAsConfigured(event) ==
  GetAvailableTransitionsForEventWithPermissions(user, event) =
    ConfiguredOffer(plugin.states, user, event)

\* C25: the transitions offered for a calendar event are those the plugin's
\* configured states list for the event's state, filtered by permission.
C25_OfferFollowsConfiguration ==
  plugin.phase = "defined" =>
    /\ \A i \in 1..Len(scheduledDocuments) :
         OfferedAsConfigured(EventOf(scheduledDocuments[i]))
    /\ contextMenu # <<>> => OfferedAsConfigured(Get(contextMenu))
    /\ selectedEvent # <<>> => OfferedAsConfigured(Get(selectedEvent))

\* the state lists roles and the user holds none of them
RoleForbidden(stateId) ==
  \E k \in 1..Len(states) :
    /\ states[k].id = stateId
    /\ IsDefined(states[k].roles)
    /\ Get(states[k].roles) # {}
    /\ Get(states[k].roles) \cap UserRoleNames(user) = {}

\* C24: no drop moves a document into a state whose roles the user does not
\* share, whatever the drag start left droppable.
C24_NoDropIntoForbiddenState ==
  /\ lastDrop.kind = "moved" => ~RoleForbidden(lastDrop.dest)
  /\ \A p \in pendingMoves : ~RoleForbidden(p.state)

C24_Witness ==
  /\ lastDrop.kind = "moved"
  /\ lastDrop.dest # lastDrop.source
  /\ \E k \in 1..Len(states) :
       /\ RoleForbidden(states[k].id)
       /\ states[k].id # lastDrop.source
       /\ ~IsDefined(StateOf(lastDrop.source).transitions)

\* the users of a list
UsersOf(list) == {list[i] : i \in 1..Len(list)}

\* C26: once every assignee call of a document has settled, with no refetch
\* and no other writer, the list shown holds exactly the stored users.
C26_SettledListsAgree ==
  pendingAssign = {} =>
    \A i \in 1..Len(store) :
      UsersOf(ItemOf(data, store[i].documentId).assignees) = UsersOf(store[i].assignees)

\* C28: a user id is in the processing set only while a call for it, sent
\* by the mounted component, is unsettled; so the set is empty once all calls
\* have settled and a later call for the user is not ignored.
C28_ProcessingSetIsCleared ==
  /\ \A d \in DocSet : \A u \in processingUsers[d] :
       \E c \in pendingAssign : c.doc = d /\ c.user = u /\ c.instance = mounts[d]
  /\ pendingAssign = {} => \A d \in DocSet : processingUsers[d] = {}

C28_Witness ==
  /\ lastAssign.outcome = "accepted"
  /\ assigns = 2
  /\ pendingAssign =
       {[doc |-> lastAssign.doc, user |-> lastAssign.user, op |-> lastAssign.op,
         safeAssignees |-> lastAssign.before, instance |-> 0,
         shown |-> lastAssign.before]}
  /\ processingUsers[lastAssign.doc] = {lastAssign.user}

\* the documents whose move() has not settled
MovingDocs == {p.doc : p \in pendingMoves}

\* C29: a document id is in patchingIds only while a move of that document is
\* unsettled, whatever the order of overlapping drops and settlements.
C29_PatchingIdsAreCleared ==
  \A i \in 1..Len(patchingIds) : patchingIds[i] \in MovingDocs

\* after the teardown no completion changes the data the hook returns
TeardownKeepsData ==
  [][~listening.isMounted => scheduledDocuments' = scheduledDocuments]_vars

\* C27: after the teardown of the effect no subscription of that effect is
\* active, also when the teardown came while the initial fetch was in flight.
C27_NoSubscriptionAfterTeardown ==
  (listening.phase # "idle" /\ ~listening.isMounted) => listening.phase # "listening"

\* a save with a blank title issues no patch
BlankTitleIssuesNoPatch ==
  lastSave.outcome = "blank" =>
    /\ lastSave.after = lastSave.before
    /\ lastSave.titleAfter = lastSave.titleBefore

\* C30: a save that ends reporting failure has left the stored metadata and
\* the stored title as they were, has not invoked onSave and has left the
\* modal open.
C30_FailedSavePersistsNothing ==
  lastSave.outcome = "failed" =>
    /\ lastSave.after = lastSave.before
    /\ lastSave.titleAfter = lastSave.titleBefore
    /\ ~lastSave.onSave
    /\ lastSave.open

====
